---- MODULE Spec2Model ----
(***************************************************************************)
(* ProjectAnalyzer (src/context/analyzer.ts) as a state machine.           *)
(*                                                                         *)
(* Strings the code inspects character by character are sequences of       *)
(* tokens: "README.md" is <<"README", ".", "md">>, the .gitignore line     *)
(* "*.log" is <<"*", ".", "log">>, "dist/" is <<"dist", "/">>.  A path is  *)
(* a sequence of names, <<src, index_ts>> for src/index.ts.                *)
(***************************************************************************)
EXTENDS Integers, Sequences, FiniteSets, TLC

VARIABLES
    fs,            \* the files under the project root (a set of paths)
    manifest,      \* what package.json holds: "corrupt" or the parsed object
    gitignore,     \* the lines of .gitignore (read only when the file exists)
    gitRepo,       \* whether the root is inside a git repository
    commits,       \* the history, most recent first
    treeInstalled, \* whether the tree utility can be spawned
    apiKey,        \* constructor argument apiKey
    envKey,        \* process.env.OPENAI_API_KEY
    openai,        \* this.openai
    phase,         \* where analyze() is
    run,           \* which call of analyze() this is
    prev,          \* how the previous call of analyze() settled
    docL,          \* analyzeDocumentation: position, locals, promise
    depsL,         \* analyzeDependencies
    gitL,          \* analyzeGit
    codeL,         \* analyzeCodebase
    firstRejection,\* what Promise.all rejected with (the first scan to fail)
    importantPaths,\* importantFilePaths in analyze()
    enrichOutcome, \* which way getImportantFilePaths went
    settled,       \* how analyze() settled: its value or its error
    gitLogRuns,    \* git log subprocesses spawned in this call
    modelCalls,    \* generateObject calls made in this call
    configDir,     \* whether the directory of configPath exists
    configFile,    \* what is at configPath: nothing, a directory, or a text
    cm,            \* the ConfigManager call in flight, or the last one settled
    cli,           \* the slidev-gen command that is running
    gen            \* the generateOutput call of the SlidesGenerator

config == <<configDir, configFile, cm, cli, gen>>
env == <<fs, manifest, gitignore, gitRepo, commits, treeInstalled, apiKey, envKey,
         config>>
call == <<phase, firstRejection, importantPaths, enrichOutcome, settled>>
vars == <<env, openai, run, prev, call, docL, depsL, gitL, codeL, gitLogRuns, modelCalls>>

Undefined == "undefined"

-----------------------------------------------------------------------------
(* Bounds of the model *)

\* analyze() is called this many times on the same analyzer and root
MaxRuns == 2
\* histories of up to this many commits are all enumerated, and so are the
\* ones of LogLimit to MaxCommits commits, at the limit of git log -n 10
ShortHistory == 3
MaxCommits == 11
\* at most this many commits of a history differ from its base kind
MaxSpecial == 2
\* the longest .gitignore enumerated, in lines
MaxIgnoreLines == 3
\* the longest list of technical details handed to generateOutput
MaxDetails == 7

-----------------------------------------------------------------------------
(* Sequence helpers *)

Range(s) == {s[i] : i \in 1..Len(s)}

Take(s, n) == SubSeq(s, 1, IF n < Len(s) THEN n ELSE Len(s))

RECURSIVE SumSeq(_)
SumSeq(s) == IF s = <<>> THEN 0 ELSE Head(s) + SumSeq(Tail(s))

RECURSIVE Flatten(_)
Flatten(ss) == IF ss = <<>> THEN <<>> ELSE Head(ss) \o Flatten(Tail(ss))

\* [...new Set(s)]: the first occurrence of each element, in order
RECURSIVE Dedupe(_)
Dedupe(s) ==
    IF s = <<>> THEN <<>>
    ELSE LET front == Dedupe(SubSeq(s, 1, Len(s) - 1))
             x == s[Len(s)]
         IN IF x \in Range(front) THEN front ELSE Append(front, x)

\* the elements of the set S in the order the sequence `order` lists them
InOrder(order, S) == SelectSeq(order, LAMBDA x : x \in S)

-----------------------------------------------------------------------------
(* File names *)

README_md == <<"README", ".", "md">>
package_json == <<"package", ".", "json">>
tsconfig_json == <<"tsconfig", ".", "json">>
eslintrc_js == <<".", "eslintrc", ".", "js">>
vite_config_ts == <<"vite", ".", "config", ".", "ts">>
next_config_js == <<"next", ".", "config", ".", "js">>
yarn_lock == <<"yarn", ".", "lock">>
pnpm_lock_yaml == <<"pnpm-lock", ".", "yaml">>
bun_lockb == <<"bun", ".", "lockb">>
bun_lock == <<"bun", ".", "lock">>
dot_gitignore == <<".", "gitignore">>
dot_git == <<".", "git">>
dot_cache == <<".", "cache">>
dot_temp == <<".", "temp">>
node_modules == <<"node_modules">>
src == <<"src">>
docs == <<"docs">>
dist == <<"dist">>
build == <<"build">>
coverage == <<"coverage">>
tmp == <<"tmp">>
custom_ignore == <<"custom_ignore">>
index_ts == <<"index", ".", "ts">>
utils_js == <<"utils", ".", "js">>
main_py == <<"main", ".", "py">>
bundle_js == <<"bundle", ".", "js">>
test_js == <<"test", ".", "js">>
guide_md == <<"guide", ".", "md">>
debug_log == <<"debug", ".", "log">>
dot_log == <<".", "log">>
lib_js == <<"lib", ".", "js">>
deep_ts == <<"deep", ".", "ts">>
lib == <<"lib">>
app_py == <<"app", ".", "py">>
main_go == <<"main", ".", "go">>
cli_rs == <<"cli", ".", "rs">>
core == <<"core">>

\* readdir order of the file system: glob lists what it finds in this order
PathOrder ==
    << <<README_md>>, <<package_json>>, <<tsconfig_json>>, <<eslintrc_js>>,
       <<dot_gitignore>>, <<yarn_lock>>, <<pnpm_lock_yaml>>, <<bun_lockb>>,
       <<bun_lock>>, <<debug_log>>, <<dot_log>>, <<main_py>>,
       <<src, index_ts>>, <<src, utils_js>>, <<src, debug_log>>,
       <<src, cli_rs>>, <<src, main_go>>, <<src, app_py>>,
       <<src, lib, core, deep_ts>>,
       <<docs, guide_md>>, <<docs, README_md>>,
       <<dist, bundle_js>>, <<build, bundle_js>>,
       <<custom_ignore, test_js>>, <<dot_cache, bundle_js>>,
       <<node_modules, lib_js>>, <<node_modules, README_md>> >>

\* file.startsWith('.')
StartsWithDot(name) == name # <<>> /\ Head(name) = "."

\* join(this.projectRoot, path) exists
Exists(path) == path \in fs

-----------------------------------------------------------------------------
(* Errors *)

ErrorTypes ==
    {"InvalidProjectStructure", "APIKeyMissing", "LLMGenerationFailed",
     "DeploymentFailed", "InvalidConfiguration"}

\* a plain Error (or a subclass of it) as thrown by fs, JSON.parse, exec
PlainError(cls, message) ==
    [cls |-> cls, instanceOfError |-> TRUE, message |-> message]

\* new SlidevGenError(type, message, originalError)
SlidevGenError(type, message, originalError) ==
    [cls |-> "SlidevGenError", instanceOfError |-> TRUE, type |-> type,
     message |-> message, originalError |-> originalError]

\* readFile of a missing file
ENOENT(path) == PlainError("Error", <<"ENOENT: no such file or directory", path>>)

\* JSON.parse of a text that is not JSON
JsonSyntaxError == PlainError("SyntaxError", <<"JSON Parse error">>)

\* exec or execa of a command that exits non-zero or cannot be spawned
CommandFailed(cmd) == PlainError("Error", <<"Command failed", cmd>>)

NoGitRepository == PlainError("Error", <<"No git repository found in project root">>)

MissingApiKey == PlainError("Error", <<"OpenAI API key must be provided">>)

\* the catch block every scan ends with
WrapMutDropCause(what, error) ==
    IF error.instanceOfError
    THEN SlidevGenError("InvalidProjectStructure",
                        <<"Failed to analyze", what>> \o error.message,
                        PlainError("Error", <<>>))
    ELSE error

Wrap(what, error) ==
    IF error.instanceOfError
    THEN SlidevGenError("InvalidProjectStructure",
                        <<"Failed to analyze", what>> \o error.message, error)
    ELSE error

-----------------------------------------------------------------------------
(* Promises *)

Pending == [state |-> "pending"]
Fulfilled(v) == [state |-> "fulfilled", value |-> v]
Rejected(e) == [state |-> "rejected", reason |-> e]

NoRejection == [scan |-> "none"]

-----------------------------------------------------------------------------
(* analyzeDocumentation *)

EndsWith(s, suffix) ==
    /\ Len(s) >= Len(suffix)
    /\ SubSeq(s, Len(s) - Len(suffix) + 1, Len(s)) = suffix

\* the directories a file lies in
DirsOf(path) == {path[i] : i \in 1..(Len(path) - 1)}

\* glob skips names that start with a dot unless told otherwise
HasDotComponent(path) == \E i \in 1..Len(path) : StartsWithDot(path[i])

\* readFile(path, 'utf-8'): contents are opaque, one per file
Content(path) == <<"content of", path>>

\* glob('**/*.md', {ignore: ['**/node_modules/**', 'README.md'], nodir: true})
DocGlob(files) ==
    InOrder(PathOrder,
            {p \in files :
                /\ EndsWith(p[Len(p)], <<".", "md">>)
                /\ ~HasDotComponent(p)
                /\ node_modules \notin DirsOf(p)
                /\ p # <<README_md>>})

Doc(path) == [path |-> path, content |-> Content(path)]

AdditionalDocs(docFiles) == [i \in 1..Len(docFiles) |-> Doc(docFiles[i])]

-----------------------------------------------------------------------------
(* analyzeDependencies *)

PackageNames == {"a", "b"}
Versions == {"1.0.0", "2.0.0"}

EmptyMap == [k \in {} |-> "1.0.0"]

\* a dependency class of the manifest: absent, or a map name -> version
AbsentClass == [declared |-> FALSE, map |-> EmptyMap]
Class(m) == [declared |-> TRUE, map |-> m]

\* pkg.dependencies || {}
OrEmpty(class) == IF class.declared THEN class.map ELSE EmptyMap

\* {...a, ...b}
Spread(a, b) ==
    [k \in (DOMAIN a) \cup (DOMAIN b) |-> IF k \in DOMAIN b THEN b[k] ELSE a[k]]

MergePackagesMutFirstWins(pkg) ==
    Spread(Spread(OrEmpty(pkg.peerDependencies), OrEmpty(pkg.devDependencies)),
           OrEmpty(pkg.dependencies))

MergePackages(pkg) ==
    Spread(Spread(OrEmpty(pkg.dependencies), OrEmpty(pkg.devDependencies)),
           OrEmpty(pkg.peerDependencies))

PackageManagerMutPnpmFirst(hasYarnLock, hasPnpmLock, hasBunLock) ==
    IF hasPnpmLock THEN "pnpm"
    ELSE IF hasBunLock THEN "bun"
    ELSE IF hasYarnLock THEN "yarn"
    ELSE "npm"

PackageManager(hasYarnLock, hasPnpmLock, hasBunLock) ==
    IF hasBunLock THEN "bun"
    ELSE IF hasPnpmLock THEN "pnpm"
    ELSE IF hasYarnLock THEN "yarn"
    ELSE "npm"

-----------------------------------------------------------------------------
(* analyzeGit *)

\* git log -n 10
LogLimit == 10
\* totalChanges >= 10
MajorThreshold == 10
\* .slice(0, 5)
MajorKeep == 5

\* sort -u lists names in this order
AuthorOrder == <<"Alice", "Bob", "Carol">>

\* "%h %s" of a commit: the text is identified by the commit, and headNums
\* are the runs of digits that text holds
HeadLine(c) == [text |-> <<"head", c.id>>, nums |-> c.headNums]

\* " F files changed, I insertions(+), D deletions(-)": a part whose count
\* is zero is left out
StatLine(c) ==
    [text |-> <<"stat", c.files, c.ins, c.del>>,
     nums |-> <<c.files>> \o (IF c.ins > 0 THEN <<c.ins>> ELSE <<>>)
                          \o (IF c.del > 0 THEN <<c.del>> ELSE <<>>)]

BlankLine == [text |-> <<>>, nums |-> <<>>]

\* git prints no stat line for a commit that changes no file
HasStat(c) == c.files > 0

\* stdout of git log --pretty=format:"%h %s" -n 10, split at '\n'
LogLines(history) ==
    LET shown == Take(history, LogLimit)
    IN [i \in 1..Len(shown) |-> HeadLine(shown[i])]

\* stdout of git log --pretty=format:"%h %s" --shortstat -n 10, split at
\* '\n': a blank line follows every stat line but the last of the output
RECURSIVE ShortstatLines(_)
ShortstatLines(shown) ==
    IF shown = <<>> THEN <<>>
    ELSE LET c == Head(shown)
             rest == Tail(shown)
         IN <<HeadLine(c)>>
            \o (IF HasStat(c) THEN <<StatLine(c)>> ELSE <<>>)
            \o (IF HasStat(c) /\ rest # <<>> THEN <<BlankLine>> ELSE <<>>)
            \o ShortstatLines(rest)

\* .split('\n\n'): the runs of lines between blank lines
RECURSIVE Chunks(_, _)
Chunks(lines, current) ==
    IF lines = <<>> THEN <<current>>
    ELSE IF Head(lines) = BlankLine
         THEN <<current>> \o Chunks(Tail(lines), <<>>)
         ELSE Chunks(Tail(lines), Append(current, Head(lines)))

\* the filter callback of majorChanges
IsMajor(chunk) ==
    /\ Len(chunk) >= 2
    /\ SumSeq(chunk[2].nums) >= MajorThreshold

MajorChangesMutNoSlice(history) ==
    LET chunks == Chunks(ShortstatLines(Take(history, LogLimit)), <<>>)
        major == SelectSeq(chunks, IsMajor)
    IN [i \in 1..Len(major) |-> major[i][1].text]

MajorChanges(history) ==
    LET chunks == Chunks(ShortstatLines(Take(history, LogLimit)), <<>>)
        major == SelectSeq(chunks, IsMajor)
    IN Take([i \in 1..Len(major) |-> major[i][1].text], MajorKeep)

RecentCommits(history) ==
    LET lines == LogLines(history)
    IN [i \in 1..Len(lines) |-> lines[i].text]

\* git log --format="%aN" | sort -u
Contributors(history) ==
    InOrder(AuthorOrder, {history[i].author : i \in 1..Len(history)})

-----------------------------------------------------------------------------
(* analyzeCodebase *)

SourceExts == {"js", "jsx", "ts", "tsx", "vue", "svelte", "py", "rb", "go", "rs"}

\* glob('**/*.{js,jsx,ts,tsx,vue,svelte,py,rb,go,rs}',
\*      {ignore: ['**/node_modules/**', '**/dist/**', '**/build/**'], nodir: true})
SourceGlob(files) ==
    InOrder(PathOrder,
            {p \in files :
                /\ \E e \in SourceExts : EndsWith(p[Len(p)], <<".", e>>)
                /\ ~HasDotComponent(p)
                /\ DirsOf(p) \cap {node_modules, dist, build} = {}})

\* the path as one string: its names joined by '/'
RECURSIVE PathTokens(_)
PathTokens(path) ==
    IF Len(path) <= 1 THEN Flatten(path)
    ELSE Head(path) \o <<"/">> \o PathTokens(Tail(path))

\* s.split('.').pop(): what follows the last '.', or all of s without one
RECURSIVE AfterLastDot(_)
AfterLastDot(s) ==
    IF "." \notin Range(s) THEN s ELSE AfterLastDot(Tail(s))

\* file.split('.').pop() || ''
Extension(path) == AfterLastDot(PathTokens(path))

\* langCount[ext]
CountOf(x, s) == Cardinality({i \in 1..Len(s) : s[i] = x})

\* .sort(([, a], [, b]) => b - a) is stable: x, met last, goes behind every
\* entry that counts at least as much
RECURSIVE InsertByCountMutTiesLast(_, _, _)
InsertByCountMutTiesLast(sorted, x, all) ==
    IF sorted = <<>> THEN <<x>>
    ELSE IF CountOf(Head(sorted), all) > CountOf(x, all)
         THEN <<Head(sorted)>> \o InsertByCountMutTiesLast(Tail(sorted), x, all)
         ELSE <<x>> \o sorted

RECURSIVE InsertByCount(_, _, _)
InsertByCount(sorted, x, all) ==
    IF sorted = <<>> THEN <<x>>
    ELSE IF CountOf(Head(sorted), all) >= CountOf(x, all)
         THEN <<Head(sorted)>> \o InsertByCount(Tail(sorted), x, all)
         ELSE <<x>> \o sorted

RECURSIVE SortByCount(_, _)
SortByCount(keys, all) ==
    IF keys = <<>> THEN <<>>
    ELSE InsertByCount(SortByCount(SubSeq(keys, 1, Len(keys) - 1), all),
                       keys[Len(keys)], all)

\* .slice(0, 3)
TopLanguages == 3

MainLanguages(allFiles) ==
    LET extensions == [i \in 1..Len(allFiles) |-> Extension(allFiles[i])]
    IN Take(SortByCount(Dedupe(extensions), extensions), TopLanguages)

SignificantPaths ==
    <<package_json, tsconfig_json, eslintrc_js, vite_config_ts,
      next_config_js, README_md>>

SignificantFilesMutShared(files) ==
    SelectSeq(SignificantPaths,
              LAMBDA name : <<name>> \in files
                            /\ (name = README_md => docL.promise.state = "fulfilled"))

SignificantFiles(files) ==
    SelectSeq(SignificantPaths, LAMBDA name : <<name>> \in files)

\* line.trim()
RECURSIVE TrimLeft(_)
TrimLeft(line) ==
    IF line # <<>> /\ Head(line) = " " THEN TrimLeft(Tail(line)) ELSE line

RECURSIVE TrimRight(_)
TrimRight(line) ==
    IF line # <<>> /\ line[Len(line)] = " "
    THEN TrimRight(SubSeq(line, 1, Len(line) - 1))
    ELSE line

Trim(line) == TrimRight(TrimLeft(line))

\* pattern.replace(/[/*]+/g, '')
StripWildcards(pattern) == SelectSeq(pattern, LAMBDA t : t \notin {"/", "*"})

\* the patterns read out of .gitignore
GitignorePatterns(lines) ==
    LET trimmed == [i \in 1..Len(lines) |-> Trim(lines[i])]
        kept == SelectSeq(trimmed, LAMBDA l : l # <<>> /\ Head(l) # "#")
        stripped == [i \in 1..Len(kept) |-> StripWildcards(kept[i])]
    IN SelectSeq(stripped, LAMBDA q : q # <<>>)

CommonPatterns == <<node_modules, dot_git>>

FallbackPatterns ==
    <<node_modules, dist, build, dot_git, coverage, dot_cache, dot_temp, tmp>>

\* ignorePattern, as the list of alternatives that '|' separates
IgnorePatternMutNoThrow(hasGitignore, lines) ==
    IF hasGitignore
    THEN Dedupe(GitignorePatterns(lines) \o CommonPatterns)
    ELSE FallbackPatterns

IgnorePattern(hasGitignore, lines) ==
    IF hasGitignore /\ GitignorePatterns(lines) # <<>>
    THEN Dedupe(GitignorePatterns(lines) \o CommonPatterns)
    ELSE FallbackPatterns

\* tree -L 3
TreeDepth == 3

\* every file and directory under the root
Entries(files) == UNION {{SubSeq(p, 1, n) : n \in 1..Len(p)} : p \in files}

\* tree -I: a name is left out when one alternative matches all of it (the
\* alternatives here hold no wildcard, so matching is being equal)
Ignored(name, pattern) == name \in Range(pattern)

\* execAsync hands `tree -L 3 -I "${ignorePattern}" --dirsfirst` to /bin/sh,
\* which runs a command substitution $(...) found between the double quotes
\* before it looks for tree. The one command enumerated is `touch <name>`
IsTouch(word) ==
    /\ Len(word) >= 5
    /\ word[1] = "$(" /\ word[2] = "touch" /\ word[3] = " "
    /\ word[Len(word)] = ")"

\* the files the shell has created under cwd once the substitutions have run
ShellWrites(pattern) ==
    {<<SubSeq(word, 4, Len(word) - 1)>> : word \in {w \in Range(pattern) : IsTouch(w)}}

\* the pattern tree is given: touch prints nothing
ShellExpand(pattern) ==
    [i \in 1..Len(pattern) |-> IF IsTouch(pattern[i]) THEN <<>> ELSE pattern[i]]

\* tree -L 3 -I pattern --dirsfirst: the entries listed. tree lists no
\* hidden entry without -a, and does not descend into what it leaves out
TreeListing(files, pattern) ==
    {e \in Entries(files) :
        /\ Len(e) <= TreeDepth
        /\ \A i \in 1..Len(e) : ~StartsWithDot(e[i]) /\ ~Ignored(e[i], pattern)}

-----------------------------------------------------------------------------
(* getImportantFilePaths, readImportantFiles *)

DryRun == "dry-run"

\* .slice(0, 3)
DryRunKeep == 3

\* significantFiles.filter(file => !file.startsWith('.')).slice(0, 3)
DryRunPathsMutKeepsHidden(significantFiles) ==
    [i \in 1..Len(Take(significantFiles, DryRunKeep)) |-> <<significantFiles[i]>>]

DryRunPaths(significantFiles) ==
    LET visible == SelectSeq(significantFiles, LAMBDA f : ~StartsWithDot(f))
    IN [i \in 1..Len(Take(visible, DryRunKeep)) |-> <<visible[i]>>]

\* what generateObject can come back with: an object that fits the schema,
\* a service error, or an answer that does not fit the schema
ModelResponses ==
    {[kind |-> "paths", paths |-> ps] :
        ps \in {<<>>, << <<src, index_ts>> >>,
                << <<src, index_ts>>, <<src, <<"gone", ".", "ts">> >> >>}}
    \cup {[kind |-> "serviceError"], [kind |-> "malformed"]}

ModelError(resp) == PlainError("Error", <<"generateObject failed", resp.kind>>)

\* this.apiKey ?? process.env.OPENAI_API_KEY
Key == IF apiKey # Undefined THEN apiKey ELSE envKey

\* initializeOpenAI throws exactly when no client is cached and no key is set
NoClient == openai = Undefined /\ Key = Undefined

\* getImportantFilePaths(context) when generateObject answers resp:
\* whether its promise fulfils, with which paths, and what it did on the way
GetImportantFilePathsMutNoCatch(significantFiles, resp) ==
    IF apiKey = DryRun
    THEN [fulfils |-> TRUE, outcome |-> "dryRun", called |-> FALSE,
          paths |-> DryRunPaths(significantFiles)]
    ELSE IF NoClient
    THEN [fulfils |-> FALSE, outcome |-> "noKey", called |-> FALSE,
          paths |-> <<>>, reason |-> MissingApiKey]
    ELSE IF resp.kind = "paths"
    THEN [fulfils |-> TRUE, outcome |-> "ok", called |-> TRUE, paths |-> resp.paths]
    ELSE [fulfils |-> FALSE, outcome |-> resp.kind, called |-> TRUE,
          paths |-> <<>>, reason |-> ModelError(resp)]

GetImportantFilePaths(significantFiles, resp) ==
    IF apiKey = DryRun
    THEN [fulfils |-> TRUE, outcome |-> "dryRun", called |-> FALSE,
          paths |-> DryRunPaths(significantFiles)]
    ELSE IF NoClient
    THEN [fulfils |-> TRUE, outcome |-> "noKey", called |-> FALSE, paths |-> <<>>]
    ELSE IF resp.kind = "paths"
    THEN [fulfils |-> TRUE, outcome |-> "ok", called |-> TRUE, paths |-> resp.paths]
    ELSE [fulfils |-> TRUE, outcome |-> resp.kind, called |-> TRUE, paths |-> <<>>]

Placeholder == <<"// Failed to read file content">>

ReadImportantFilesMutDropsUnreadable(paths) ==
    LET readable == SelectSeq(paths, Exists)
    IN [i \in 1..Len(readable) |->
           [path |-> readable[i], content |-> Content(readable[i])]]

ReadImportantFiles(paths) ==
    [i \in 1..Len(paths) |->
        IF Exists(paths[i])
        THEN [path |-> paths[i], content |-> Content(paths[i])]
        ELSE [path |-> paths[i], content |-> Placeholder]]

-----------------------------------------------------------------------------
(* ConfigManager: JSON, ProjectConfigSchema, loadConfig, saveConfig *)

\* JSON values: strings, numbers (by their literal), null, arrays; undefined is a property value
\* of an object in memory, never of a JSON text
Str(v) == [t |-> "string", v |-> v]
Num(v) == [t |-> "number", v |-> v]
Null == [t |-> "null"]
Arr == [t |-> "array"]
Undef == [t |-> "undefined"]

\* a property that the object does not have
Missing == [t |-> "missing"]

\* the keys of ProjectConfigSchema, in the order of its shape
SchemaKeys == <<"slidesPath", "model", "theme", "deploymentType", "customDomain">>

\* the order in which the keys of an object are enumerated (insertion order;
\* the objects enumerated here are built in this order)
KeyOrder == SchemaKeys \o <<"apiKey">>

\* the object with the properties of f that are not Missing
Object(f) == [k \in {key \in DOMAIN f : f[key] # Missing} |-> f[k]]

\* obj[key]
Get(obj, key) == IF key \in DOMAIN obj THEN obj[key] ELSE Undef

\* JSON.stringify(value, null, 2) of an object: its members in key order,
\* the undefined ones left out
JsonStringifyMutDropsOptional(obj) ==
    [kind |-> "object",
     members |->
        LET keys == SelectSeq(KeyOrder,
                       LAMBDA k : k \in DOMAIN obj /\ obj[k] # Undef
                                  /\ k # "customDomain")
        IN [i \in 1..Len(keys) |-> [key |-> keys[i], value |-> obj[keys[i]]]]]

JsonStringify(obj) ==
    [kind |-> "object",
     members |->
        LET keys == SelectSeq(KeyOrder,
                       LAMBDA k : k \in DOMAIN obj /\ obj[k] # Undef)
        IN [i \in 1..Len(keys) |-> [key |-> keys[i], value |-> obj[keys[i]]]]]

\* a text that is not JSON, and the JSON text `null`
Garbage == [kind |-> "garbage"]
NullText == [kind |-> "literal", token |-> "null"]

\* JSON.parse(text)
JsonParse(text) ==
    IF text.kind = "garbage" THEN [ok |-> FALSE, error |-> JsonSyntaxError]
    ELSE IF text.kind = "literal" THEN [ok |-> TRUE, value |-> Null]
    ELSE [ok |-> TRUE,
          value |-> [k \in {text.members[i].key : i \in 1..Len(text.members)} |->
                        LET last == CHOOSE i \in 1..Len(text.members) :
                                       /\ text.members[i].key = k
                                       /\ \A j \in (i + 1)..Len(text.members) :
                                             text.members[j].key # k
                        IN text.members[last].value]]

DeploymentTypes == {"github", "netlify", "vercel"}

\* .default(...) of each key of the schema
SchemaDefaultsMutModel ==
    [slidesPath |-> "./.slides", model |-> "gpt-4o", theme |-> "default",
     deploymentType |-> "github"]

SchemaDefaults ==
    [slidesPath |-> "./.slides", model |-> "gpt-4", theme |-> "default",
     deploymentType |-> "github"]

\* whether a key of the schema accepts the value
Accepts(key, value) ==
    \/ value = Undef
    \/ value.t = "string" /\ (key = "deploymentType" => value.v \in DeploymentTypes)

ZodError(issues) == PlainError("ZodError", issues)

\* ProjectConfigSchema.parse(input): the object with defaults filled in and
\* unknown keys stripped, or a ZodError with one issue per key refused
SchemaParse(input) ==
    IF input \in {Null, Arr}
    THEN [ok |-> FALSE, error |-> ZodError(<<"Expected object">>)]
    ELSE LET refused == SelectSeq(SchemaKeys,
                                  LAMBDA k : ~Accepts(k, Get(input, k)))
         IN IF refused # <<>>
            THEN [ok |-> FALSE,
                  error |-> ZodError([i \in 1..Len(refused) |->
                                         "Invalid " \o refused[i]])]
            ELSE [ok |-> TRUE,
                  value |->
                     [k \in {key \in Range(SchemaKeys) :
                                 \/ key \in DOMAIN SchemaDefaults
                                 \/ Get(input, key) # Undef} |->
                         IF Get(input, k) = Undef
                         THEN Str(SchemaDefaults[k])
                         ELSE input[k]]]

\* what can be at configPath
Absent == [kind |-> "absent"]
Directory == [kind |-> "directory"]

EISDIR == PlainError("Error", <<"EISDIR: illegal operation on a directory">>)

InvalidConfiguration(message, error) ==
    SlidevGenError("InvalidConfiguration", message, error)

\* loadConfig(): readFile, JSON.parse, ProjectConfigSchema.parse and the two
\* catch blocks; the promise it returns
LoadConfigResultMutDefaultsOnBadJson(file) ==
    IF file = Absent
    THEN Fulfilled(SchemaParse(Object(<<>>)).value)
    ELSE IF file = Directory
    THEN Rejected(InvalidConfiguration(<<"Failed to load configuration">>, EISDIR))
    ELSE IF ~JsonParse(file).ok
    THEN Fulfilled(SchemaParse(Object(<<>>)).value)
    ELSE LET parsed == SchemaParse(JsonParse(file).value)
         IN IF parsed.ok
            THEN Fulfilled(parsed.value)
            ELSE Rejected(InvalidConfiguration(<<"Failed to load configuration">>,
                                               parsed.error))

LoadConfigResult(file) ==
    IF file = Absent
    THEN Fulfilled(SchemaParse(Object(<<>>)).value)
    ELSE IF file = Directory
    THEN Rejected(InvalidConfiguration(<<"Failed to load configuration">>, EISDIR))
    ELSE IF ~JsonParse(file).ok
    THEN Rejected(InvalidConfiguration(
                      <<"Configuration file contains invalid JSON">>,
                      JsonParse(file).error))
    ELSE LET parsed == SchemaParse(JsonParse(file).value)
         IN IF parsed.ok
            THEN Fulfilled(parsed.value)
            ELSE Rejected(InvalidConfiguration(<<"Failed to load configuration">>,
                                               parsed.error))

NoArg == [t |-> "none"]

\* no call of the ConfigManager in flight; saved is the argument of the
\* saveConfig that fulfilled last, while the file is as it left it
CmIdle == [op |-> "none", pc |-> "end", arg |-> NoArg, promise |-> Pending,
           saved |-> NoArg, validated |-> NoArg]

\* async loadConfig()
LoadConfig ==
    /\ cm.pc = "end"
    /\ cm' = [cm EXCEPT !.op = "load", !.arg = NoArg, !.validated = NoArg,
                        !.promise = LoadConfigResult(
                            IF configDir THEN configFile ELSE Absent)]
    /\ UNCHANGED <<cli, gen, fs, manifest, gitignore, gitRepo, commits, treeInstalled,
                   apiKey, envKey, configDir, configFile, openai, run, prev, call,
                   docL, depsL, gitL, codeL, gitLogRuns, modelCalls>>

\* saveConfig up to its first await: ProjectConfigSchema.parse(config), then
\* mkdir(dirname(this.configPath), {recursive: true}); what it leaves of the
\* directory and of the call
SaveConfigBeginMutMkdirFirst(c, dirExists) ==
    IF SchemaParse(c).ok
    THEN [dir |-> TRUE, pc |-> "write", validated |-> SchemaParse(c).value,
          promise |-> Pending]
    ELSE [dir |-> TRUE, pc |-> "end", validated |-> NoArg,
          promise |-> Rejected(InvalidConfiguration(
                         <<"Invalid configuration format">>
                             \o SchemaParse(c).error.message,
                         SchemaParse(c).error))]

SaveConfigBegin(c, dirExists) ==
    IF SchemaParse(c).ok
    THEN [dir |-> TRUE, pc |-> "write", validated |-> SchemaParse(c).value,
          promise |-> Pending]
    ELSE [dir |-> dirExists, pc |-> "end", validated |-> NoArg,
          promise |-> Rejected(InvalidConfiguration(
                         <<"Invalid configuration format">>
                             \o SchemaParse(c).error.message,
                         SchemaParse(c).error))]

\* async saveConfig(config), to the await of mkdir
SaveConfig(c) ==
    /\ cm.pc = "end"
    /\ LET begun == SaveConfigBegin(c, configDir)
       IN /\ configDir' = begun.dir
          /\ cm' = [op |-> "save", pc |-> begun.pc, arg |-> c,
                    promise |-> begun.promise, saved |-> NoArg,
                    validated |-> begun.validated]
    /\ UNCHANGED <<cli, gen, fs, manifest, gitignore, gitRepo, commits, treeInstalled,
                   apiKey, envKey, configFile, openai, run, prev, call,
                   docL, depsL, gitL, codeL, gitLogRuns, modelCalls>>

\* await writeFile(this.configPath, configString, 'utf-8')
SaveConfigWrite ==
    /\ cm.pc = "write"
    /\ IF configFile = Directory
       THEN /\ cm' = [cm EXCEPT
                        !.pc = "end",
                        !.promise = Rejected(InvalidConfiguration(
                            <<"Failed to save configuration">>, EISDIR))]
            /\ UNCHANGED configFile
       ELSE /\ configFile' = JsonStringify(cm.validated)
            /\ cm' = [cm EXCEPT !.pc = "end", !.promise = Fulfilled(Undefined),
                                !.saved = cm.arg]
    /\ UNCHANGED <<cli, gen, fs, manifest, gitignore, gitRepo, commits, treeInstalled,
                   apiKey, envKey, configDir, openai, run, prev, call,
                   docL, depsL, gitL, codeL, gitLogRuns, modelCalls>>

-----------------------------------------------------------------------------
(* The four scans, one action per await *)

NoError == [cls |-> "none"]

\* a scan that analyze() has not started
Idle ==
    [pc |-> "idle", promise |-> Pending, caught |-> NoError]

\* the scan's catch block: it rejects with the wrapped error and ends
Fail(local, what, error) ==
    [local EXCEPT !.pc = "end", !.caught = error,
                  !.promise = Rejected(Wrap(what, error))]

\* Promise.all settles with the first rejection among its scans
NoteRejectionMutLastWins(scan, local) ==
    IF local.promise.state = "rejected"
    THEN [scan |-> scan, reason |-> local.promise.reason]
    ELSE firstRejection

NoteRejection(scan, local) ==
    IF phase = "awaiting" /\ firstRejection = NoRejection
       /\ local.promise.state = "rejected"
    THEN [scan |-> scan, reason |-> local.promise.reason]
    ELSE firstRejection

DocStart == [Idle EXCEPT !.pc = "readme"] @@ [readmeContent |-> <<>>, docFiles |-> <<>>]

\* readFile(join(this.projectRoot, path), 'utf-8')
ReadFileMutMissingIsEmpty(path) ==
    IF Exists(path) THEN [ok |-> TRUE, content |-> Content(path)]
    ELSE [ok |-> TRUE, content |-> <<>>]

ReadFile(path) ==
    IF Exists(path) THEN [ok |-> TRUE, content |-> Content(path)]
    ELSE [ok |-> FALSE, error |-> ENOENT(path)]

\* const readmeContent = await readFile(readmePath, 'utf-8')
DocReadReadme ==
    /\ docL.pc = "readme"
    /\ docL' = IF ReadFile(<<README_md>>).ok
               THEN [docL EXCEPT !.pc = "glob",
                                 !.readmeContent = ReadFile(<<README_md>>).content]
               ELSE Fail(docL, "documentation", ReadFile(<<README_md>>).error)
    /\ firstRejection' = NoteRejection("documentation", docL')
    /\ UNCHANGED <<env, openai, run, prev, phase, importantPaths, enrichOutcome,
                   settled, depsL, gitL, codeL, gitLogRuns, modelCalls>>

\* const docFiles = await glob('**/*.md', ...)
DocGlobFiles ==
    /\ docL.pc = "glob"
    /\ docL' = [docL EXCEPT !.pc = "readDocs", !.docFiles = DocGlob(fs)]
    /\ UNCHANGED <<env, openai, run, prev, call, depsL, gitL, codeL,
                   gitLogRuns, modelCalls>>

\* const additionalDocs = await Promise.all(docFiles.map(...)); return {...}
DocReadDocs ==
    /\ docL.pc = "readDocs"
    /\ docL' = [docL EXCEPT
                 !.pc = "end",
                 !.promise = Fulfilled(
                     [readme |-> [path |-> README_md,
                                  content |-> docL.readmeContent],
                      additionalDocs |-> AdditionalDocs(docL.docFiles)])]
    /\ UNCHANGED <<env, openai, run, prev, call, depsL, gitL, codeL,
                   gitLogRuns, modelCalls>>

NoManifest == [json |-> "absent"]
Corrupt == [json |-> "corrupt"]
Manifest(d, dev, peer) ==
    [json |-> "object", dependencies |-> d, devDependencies |-> dev,
     peerDependencies |-> peer]

DepsStart == [Idle EXCEPT !.pc = "readPkg"] @@ [pkg |-> NoManifest]

\* const pkgContent = await readFile(pkgPath, 'utf-8'); JSON.parse(pkgContent)
DepsReadPkg ==
    /\ depsL.pc = "readPkg"
    /\ depsL' = IF ~ReadFile(<<package_json>>).ok
                THEN Fail(depsL, "dependencies", ReadFile(<<package_json>>).error)
                ELSE IF manifest.json # "object"
                THEN Fail(depsL, "dependencies", JsonSyntaxError)
                ELSE [depsL EXCEPT !.pc = "locks", !.pkg = manifest]
    /\ firstRejection' = NoteRejection("dependencies", depsL')
    /\ UNCHANGED <<env, openai, run, prev, phase, importantPaths, enrichOutcome,
                   settled, docL, gitL, codeL, gitLogRuns, modelCalls>>

\* the four fileExists awaits, then the merge and the return
DepsLocks ==
    /\ depsL.pc = "locks"
    /\ LET hasYarnLock == Exists(<<yarn_lock>>)
           hasPnpmLock == Exists(<<pnpm_lock_yaml>>)
           hasBunLock == Exists(<<bun_lockb>>) \/ Exists(<<bun_lock>>)
       IN depsL' = [depsL EXCEPT
                     !.pc = "end",
                     !.promise = Fulfilled(
                         [packageManager |->
                              PackageManager(hasYarnLock, hasPnpmLock, hasBunLock),
                          packages |-> MergePackages(depsL.pkg)])]
    /\ UNCHANGED <<env, openai, run, prev, call, docL, gitL, codeL,
                   gitLogRuns, modelCalls>>

GitStart ==
    [Idle EXCEPT !.pc = "revParse"]
    @@ [recentCommits |-> <<>>, majorChanges |-> <<>>]

\* try { await execa('git', ['rev-parse', '--git-dir']) } catch { throw ... }
RevParseMutSwallow(inRepo) == [ok |-> TRUE]

RevParse(inRepo) ==
    IF inRepo THEN [ok |-> TRUE] ELSE [ok |-> FALSE, error |-> NoGitRepository]

GitRevParse ==
    /\ gitL.pc = "revParse"
    /\ gitL' = IF RevParse(gitRepo).ok
               THEN [gitL EXCEPT !.pc = "log"]
               ELSE Fail(gitL, "git history", RevParse(gitRepo).error)
    /\ firstRejection' = NoteRejection("git", gitL')
    /\ UNCHANGED <<env, openai, run, prev, phase, importantPaths, enrichOutcome,
                   settled, docL, depsL, codeL, gitLogRuns, modelCalls>>

\* git log exits non-zero outside a repository and on a branch without commits
GitLogWorks == gitRepo /\ commits # <<>>

\* await execAsync('git log --pretty=format:"%h %s" -n 10')
GitLog ==
    /\ gitL.pc = "log"
    /\ gitLogRuns' = gitLogRuns + 1
    /\ gitL' = IF GitLogWorks
               THEN [gitL EXCEPT !.pc = "logStat",
                                 !.recentCommits = RecentCommits(commits)]
               ELSE Fail(gitL, "git history", CommandFailed("git log"))
    /\ firstRejection' = NoteRejection("git", gitL')
    /\ UNCHANGED <<env, openai, run, prev, phase, importantPaths, enrichOutcome,
                   settled, docL, depsL, codeL, modelCalls>>

\* await execAsync('git log --pretty=format:"%h %s" --shortstat -n 10')
GitLogStat ==
    /\ gitL.pc = "logStat"
    /\ gitLogRuns' = gitLogRuns + 1
    /\ gitL' = [gitL EXCEPT !.pc = "contributors",
                            !.majorChanges = MajorChanges(commits)]
    /\ UNCHANGED <<env, openai, run, prev, call, docL, depsL, codeL, modelCalls>>

\* await execAsync('git log --format="%aN" | sort -u'); return {...}
GitContributors ==
    /\ gitL.pc = "contributors"
    /\ gitLogRuns' = gitLogRuns + 1
    /\ gitL' = [gitL EXCEPT
                 !.pc = "end",
                 !.promise = Fulfilled(
                     [recentCommits |-> gitL.recentCommits,
                      majorChanges |-> gitL.majorChanges,
                      contributors |-> Contributors(commits)])]
    /\ UNCHANGED <<env, openai, run, prev, call, docL, depsL, codeL, modelCalls>>

CodeStart ==
    [Idle EXCEPT !.pc = "glob"]
    @@ [mainLanguages |-> <<>>, significantFiles |-> <<>>, ignorePattern |-> <<>>]

\* const allFiles = await glob(...), then mainLanguages
CodeGlob ==
    /\ codeL.pc = "glob"
    /\ codeL' = [codeL EXCEPT !.pc = "significant",
                              !.mainLanguages = MainLanguages(SourceGlob(fs))]
    /\ UNCHANGED <<env, openai, run, prev, call, docL, depsL, gitL,
                   gitLogRuns, modelCalls>>

\* await Promise.all(significantPaths.map(...))
CodeSignificant ==
    /\ codeL.pc = "significant"
    /\ codeL' = [codeL EXCEPT !.pc = "gitignore",
                              !.significantFiles = SignificantFiles(fs)]
    /\ UNCHANGED <<env, openai, run, prev, call, docL, depsL, gitL,
                   gitLogRuns, modelCalls>>

\* await readFile(gitignorePath, 'utf-8'), then ignorePattern
CodeGitignore ==
    /\ codeL.pc = "gitignore"
    /\ codeL' = [codeL EXCEPT
                  !.pc = "tree",
                  !.ignorePattern =
                      IgnorePattern(Exists(<<dot_gitignore>>), gitignore)]
    /\ UNCHANGED <<env, openai, run, prev, call, docL, depsL, gitL,
                   gitLogRuns, modelCalls>>

\* await execAsync(`tree -L 3 -I "${ignorePattern}" --dirsfirst`); return {...}
CodeTree ==
    /\ codeL.pc = "tree"
    /\ fs' = fs \cup ShellWrites(codeL.ignorePattern)
    /\ codeL' = IF treeInstalled
                THEN [codeL EXCEPT
                       !.pc = "end",
                       !.promise = Fulfilled(
                           [mainLanguages |-> codeL.mainLanguages,
                            fileStructure |->
                                TreeListing(fs', ShellExpand(codeL.ignorePattern)),
                            significantFiles |-> codeL.significantFiles,
                            importantFiles |-> <<>>])]
                ELSE Fail(codeL, "codebase", CommandFailed("tree"))
    /\ firstRejection' = NoteRejection("codebase", codeL')
    /\ UNCHANGED <<manifest, gitignore, gitRepo, commits, treeInstalled, apiKey,
                   envKey, config, openai, run, prev, phase, importantPaths, enrichOutcome,
                   settled, docL, depsL, gitL, gitLogRuns, modelCalls>>

-----------------------------------------------------------------------------
(* analyze() *)

Scans == <<docL, depsL, gitL, codeL>>

AllFulfilled == \A i \in 1..4 : Scans[i].promise.state = "fulfilled"
AllEnded == \A i \in 1..4 : Scans[i].pc = "end"

\* baseContext
BaseContext ==
    [documentation |-> docL.promise.value,
     dependencies |-> depsL.promise.value,
     git |-> gitL.promise.value,
     codebase |-> codeL.promise.value]

\* the four calls inside Promise.all([...]): each scan runs to its first await
AnalyzeStart ==
    /\ phase = "idle"
    /\ phase' = "awaiting"
    /\ docL' = DocStart
    /\ depsL' = DepsStart
    /\ gitL' = GitStart
    /\ codeL' = CodeStart
    /\ UNCHANGED <<env, openai, run, prev, firstRejection, importantPaths,
                   enrichOutcome, settled, gitLogRuns, modelCalls>>

\* the promise Promise.all([...]) returns: rejected with the first rejection,
\* fulfilled with the values once every promise has fulfilled
PromiseAllMutAny(first, promises) ==
    IF first # NoRejection THEN Rejected(first.reason)
    ELSE IF \E i \in 1..Len(promises) : promises[i].state = "fulfilled"
    THEN Fulfilled([i \in 1..Len(promises) |->
                       IF promises[i].state = "fulfilled"
                       THEN promises[i].value ELSE Undefined])
    ELSE Pending

PromiseAll(first, promises) ==
    IF first # NoRejection THEN Rejected(first.reason)
    ELSE IF \A i \in 1..Len(promises) : promises[i].state = "fulfilled"
    THEN Fulfilled([i \in 1..Len(promises) |-> promises[i].value])
    ELSE Pending

\* await Promise.all([...]) resumes: it throws the first rejection, or goes on
\* with the four values once all four scans have fulfilled
AnalyzeResume ==
    /\ phase = "awaiting"
    /\ LET all == PromiseAll(firstRejection,
                             [i \in 1..4 |-> Scans[i].promise])
       IN /\ all.state # "pending"
          /\ IF all.state = "rejected"
             THEN /\ phase' = "rejected"
                  /\ settled' = Rejected(all.reason)
             ELSE /\ phase' = "paths"
                  /\ UNCHANGED settled
    /\ UNCHANGED <<env, openai, run, prev, firstRejection, importantPaths,
                   enrichOutcome, docL, depsL, gitL, codeL, gitLogRuns, modelCalls>>

\* const importantFilePaths = await this.getImportantFilePaths(baseContext)
AnalyzeImportantPaths(resp) ==
    /\ phase = "paths"
    /\ LET got == GetImportantFilePaths(BaseContext.codebase.significantFiles, resp)
       IN /\ enrichOutcome' = got.outcome
          /\ modelCalls' = modelCalls + (IF got.called THEN 1 ELSE 0)
          /\ openai' = IF apiKey # DryRun /\ ~NoClient /\ openai = Undefined
                       THEN Key ELSE openai
          /\ IF got.fulfils
             THEN /\ phase' = "read"
                  /\ importantPaths' = got.paths
                  /\ UNCHANGED settled
             ELSE /\ phase' = "rejected"
                  /\ settled' = Rejected(got.reason)
                  /\ UNCHANGED importantPaths
    /\ UNCHANGED <<env, run, prev, firstRejection, docL, depsL, gitL, codeL,
                   gitLogRuns>>

\* const importantFiles = await this.readImportantFiles(importantFilePaths)
\* return {...baseContext, codebase: {...codebase, importantFiles}}
AnalyzeReturn ==
    /\ phase = "read"
    /\ phase' = "resolved"
    /\ settled' = Fulfilled(
           [BaseContext EXCEPT
               !.codebase = [codeL.promise.value EXCEPT
                   !.importantFiles = ReadImportantFiles(importantPaths)]])
    /\ UNCHANGED <<env, openai, run, prev, firstRejection, importantPaths,
                   enrichOutcome, docL, depsL, gitL, codeL, gitLogRuns, modelCalls>>

\* the caller calls analyze() again on the same analyzer, once the call
\* before has settled and its scans have ended
AnalyzeAgain ==
    /\ phase \in {"resolved", "rejected"}
    /\ AllEnded
    /\ run < MaxRuns
    /\ run' = run + 1
    /\ prev' = settled
    /\ phase' = "idle"
    /\ firstRejection' = NoRejection
    /\ importantPaths' = <<>>
    /\ enrichOutcome' = "none"
    /\ settled' = Pending
    /\ docL' = Idle /\ depsL' = Idle /\ gitL' = Idle /\ codeL' = Idle
    /\ gitLogRuns' = 0
    /\ modelCalls' = 0
    /\ UNCHANGED <<env, openai>>

-----------------------------------------------------------------------------
(* SlidesGenerator.generateOutput and the slide templates *)

\* the string '' a template returns when it has nothing to show
NoContent == [empty |-> TRUE]

\* templates[name].layout
Layout ==
    [cover |-> "cover", overview |-> "center", architecture |-> "cover",
     features |-> "center", technicalHeader |-> "section",
     technicalGroup |-> "center", technicalWithDiagram |-> "two-cols",
     roadmap |-> "center"]

Bullets(heading, items) == [heading |-> heading, bullets |-> items]

\* templates[name].content(data): the heading after '# ' and what follows it
TemplateContent(name, data) ==
    CASE name = "cover" -> [heading |-> data.title, text |-> data.headline]
      [] name = "overview" -> [heading |-> "Overview", text |-> data.overview]
      [] name = "architecture" ->
            [heading |-> "Architecture", text |-> data.architecture.description,
             diagram |-> data.architecture.diagram]
      [] name = "features" ->
            IF Len(data.features) = 0 THEN NoContent
            ELSE Bullets("Key Features", data.features)
      [] name = "technicalHeader" -> [heading |-> "Technical Deep Dive"]
      [] name = "technicalGroup" ->
            IF "technical" \notin DOMAIN data THEN NoContent
            ELSE Bullets(data.technical.title, data.technical.details)
      [] name = "technicalWithDiagram" ->
            IF "technical" \notin DOMAIN data THEN NoContent
            ELSE Bullets(data.technical.title, data.technical.details)
                 @@ [diagram |-> IF data.technical.diagrams # <<>>
                                 THEN data.technical.diagrams[1] ELSE Undefined]
      [] name = "roadmap" ->
            IF Len(data.roadmap) = 0 THEN NoContent
            ELSE Bullets("Roadmap", data.roadmap)

\* createSlide(template, data): the front matter and the content, or ''
NoSlide == [layout |-> "none"]

CreateSlide(name, data) ==
    IF TemplateContent(name, data) = NoContent THEN NoSlide
    ELSE [layout |-> Layout[name], content |-> TemplateContent(name, data)]

\* array.slice(from, to), with from and to counted from 0
Slice(s, from, to) ==
    SubSeq(s, from + 1, IF to < Len(s) THEN to ELSE Len(s))

\* technical details on one slide
GroupSize == 3

GroupTitle(i) ==
    IF i = 0 THEN "Core Technical Features"
    ELSE IF i <= 3 THEN "Implementation Details"
    ELSE "Advanced Technical Concepts"

\* the body of for (let i = 0; i < technical.length; i += 3), from i on
RECURSIVE TechnicalSlidesMutOverlap(_, _, _)
TechnicalSlidesMutOverlap(technical, flowcharts, i) ==
    IF i >= Len(technical) THEN <<>>
    ELSE LET groupDetails == Slice(technical, i, i + GroupSize + 1)
             groupDiagrams == Slice(flowcharts, i, i + GroupSize)
             technicalData == [technical |-> [title |-> GroupTitle(i),
                                              details |-> groupDetails,
                                              diagrams |-> groupDiagrams]]
             template == IF Len(groupDiagrams) > 0
                         THEN "technicalWithDiagram" ELSE "technicalGroup"
         IN <<CreateSlide(template, technicalData)>>
            \o TechnicalSlidesMutOverlap(technical, flowcharts, i + GroupSize)

RECURSIVE TechnicalSlides(_, _, _)
TechnicalSlides(technical, flowcharts, i) ==
    IF i >= Len(technical) THEN <<>>
    ELSE LET groupDetails == Slice(technical, i, i + GroupSize)
             groupDiagrams == Slice(flowcharts, i, i + GroupSize)
             technicalData == [technical |-> [title |-> GroupTitle(i),
                                              details |-> groupDetails,
                                              diagrams |-> groupDiagrams]]
             template == IF Len(groupDiagrams) > 0
                         THEN "technicalWithDiagram" ELSE "technicalGroup"
         IN <<CreateSlide(template, technicalData)>>
            \o TechnicalSlides(technical, flowcharts, i + GroupSize)

\* generateOutput(content).markdown: the slides that are not '', which
\* join('\n\n') strings together
GenerateOutput(content) ==
    LET templateData ==
            [title |-> content.title, headline |-> content.headline,
             overview |-> content.sections.overview,
             architecture |-> [description |-> content.sections.architecture,
                               diagram |-> content.diagrams.architecture],
             features |-> content.sections.features,
             roadmap |-> content.sections.roadmap]
        flowcharts == IF content.diagrams.flowcharts = Undefined THEN <<>>
                      ELSE content.diagrams.flowcharts
        slides ==
            <<CreateSlide("cover", templateData),
              CreateSlide("overview", templateData),
              CreateSlide("architecture", templateData),
              CreateSlide("features", templateData)>>
            \o (IF Len(content.sections.technical) > 0
                THEN <<CreateSlide("technicalHeader", templateData)>>
                     \o TechnicalSlides(content.sections.technical, flowcharts, 0)
                ELSE <<>>)
            \o <<CreateSlide("roadmap", templateData)>>
    IN SelectSeq(slides, LAMBDA slide : slide # NoSlide)

\* no generateOutput call yet
NoOutput == [pc |-> "none", content |-> NoArg, markdown |-> <<>>]

\* what generateContent returned
SlideContent(technical, flowcharts, features, roadmap) ==
    [title |-> "Test Title", headline |-> "Test Headline",
     sections |-> [overview |-> "Test Overview",
                   architecture |-> "Test Architecture",
                   features |-> features, technical |-> technical,
                   roadmap |-> roadmap],
     diagrams |-> [architecture |-> "graph TD", flowcharts |-> flowcharts]]

-----------------------------------------------------------------------------
(* The command line: slidev-gen generate *)

Bool(b) == [t |-> "boolean", v |-> b]

\* the flags of `generate` and the key each has in the options object
GenerateFlags == {"slidesPath", "model", "theme", "apiKey", "dryRun"}

\* what the user types after each flag
Typed ==
    [slidesPath |-> Str("./cli-slides"), model |-> Str("o3-mini"),
     theme |-> Str("seriph"), apiKey |-> Str("sk-cli"), dryRun |-> Bool(TRUE)]

\* the command lines: every set of flags, each with its value
Argvs == {[k \in given |-> Typed[k]] : given \in SUBSET GenerateFlags}

\* .option('-o, --slides-path <dir>', ..., './.slides') and the like: the
\* third argument is the value the option has when the flag is not given
GenerateDefaults ==
    [slidesPath |-> Str("./.slides"), model |-> Str("gpt-4"),
     theme |-> Str("default"), dryRun |-> Bool(FALSE)]

\* the options object Commander hands to the action
CommanderOptions(argv) == Spread(GenerateDefaults, argv)

\* options.dryRun ? 'dry-run' : options.apiKey
AnalyzerKeyMutPassesKey(options) ==
    IF "apiKey" \in DOMAIN options THEN options["apiKey"].v ELSE Undefined

AnalyzerKey(options) ==
    IF options["dryRun"].v THEN DryRun
    ELSE IF "apiKey" \in DOMAIN options THEN options["apiKey"].v ELSE Undefined

\* CLI.loadConfig(options): {...baseConfig, ...options}, or the error of
\* configManager.loadConfig() wrapped once more
CliLoadConfigResult(file, options) ==
    LET base == LoadConfigResult(file)
    IN IF base.state = "fulfilled"
       THEN Fulfilled(Spread(base.value, options))
       ELSE Rejected(SlidevGenError(
                "InvalidConfiguration",
                <<"Failed to load configuration: ">> \o base.reason.message,
                base.reason))

\* CLI.getAPIKey(cliKey)
ApiKeyMissing ==
    SlidevGenError("APIKeyMissing", <<"OpenAI API key not found">>, Undefined)

GetAPIKey(options) ==
    IF "apiKey" \in DOMAIN options THEN Fulfilled(options["apiKey"].v)
    ELSE IF envKey # Undefined THEN Fulfilled(envKey)
    ELSE Rejected(ApiKeyMissing)

\* no command is running
NoCommand ==
    [pc |-> "none", argv |-> <<>>, options |-> <<>>, config |-> NoArg,
     keyChecked |-> FALSE, debugLog |-> NoArg, generateCalls |-> 0,
     generatorModelCalls |-> 0, error |-> [cls |-> "none"]]

\* the shell is about to start `slidev-gen generate ...`
AtPrompt == [NoCommand EXCEPT !.pc = "prompt"]

\* what a command leaves unchanged when it only moves on
besidesCli ==
    <<fs, manifest, gitignore, gitRepo, commits, treeInstalled, envKey,
      configDir, configFile, cm, openai, run, prev, firstRejection,
      importantPaths, enrichOutcome, settled, docL, depsL, gitL, codeL,
      gitLogRuns, modelCalls>>

\* handleError(error): process.exit(1)
Exit(error) == [cli EXCEPT !.pc = "exit", !.error = error]

\* program.parse(): Commander calls the action of `generate`
CliGenerate(argv) ==
    /\ cli.pc = "prompt"
    /\ cli' = [cli EXCEPT !.pc = "loadConfig", !.argv = argv,
                          !.options = CommanderOptions(argv)]
    /\ UNCHANGED <<besidesCli, gen, apiKey, phase>>

\* const config = await this.loadConfig(options)
CliLoadConfig ==
    /\ cli.pc = "loadConfig"
    /\ LET loaded == CliLoadConfigResult(IF configDir THEN configFile ELSE Absent,
                                         cli.options)
       IN cli' = IF loaded.state = "rejected" THEN Exit(loaded.reason)
                 ELSE [cli EXCEPT !.config = loaded.value,
                                  !.pc = IF cli.options["dryRun"].v
                                         THEN "construct" ELSE "getAPIKey"]
    /\ UNCHANGED <<besidesCli, gen, apiKey, phase>>

\* if (!options.dryRun) await this.getAPIKey(options.apiKey)
CliGetAPIKey ==
    /\ cli.pc = "getAPIKey"
    /\ cli' = IF GetAPIKey(cli.options).state = "rejected"
              THEN [Exit(GetAPIKey(cli.options).reason) EXCEPT !.keyChecked = TRUE]
              ELSE [cli EXCEPT !.pc = "construct", !.keyChecked = TRUE]
    /\ UNCHANGED <<besidesCli, gen, apiKey, phase>>

\* new ProjectAnalyzer(...), new SlidesGenerator(...), and the call of
\* analyzer.analyze(), which starts from phase "idle"
CliConstruct ==
    /\ cli.pc = "construct"
    /\ phase = "cli"
    /\ apiKey' = AnalyzerKey(cli.options)
    /\ phase' = "idle"
    /\ cli' = [cli EXCEPT !.pc = "analyze"]
    /\ UNCHANGED <<besidesCli, gen>>

\* const context = await analyzer.analyze(), and in dry-run mode
\* writeDebugLog(config.slidesPath, ...), which swallows its own failures
CliAnalyzed ==
    /\ cli.pc = "analyze"
    /\ phase \in {"resolved", "rejected"}
    /\ cli' = IF phase = "rejected" THEN Exit(settled.reason)
              ELSE [cli EXCEPT
                      !.pc = "generate",
                      !.debugLog = IF cli.options["dryRun"].v
                                   THEN cli.config["slidesPath"] ELSE NoArg]
    /\ UNCHANGED <<besidesCli, gen, apiKey, phase>>

\* the content generateObject answers with
MockContent ==
    SlideContent(<<"Tech 1", "Tech 2">>, <<"graph LR">>,
                 <<"Feature 1", "Feature 2">>, <<"Step 1">>)

\* if (!options.dryRun) await generator.generate(context): generateContent
\* calls generateObject, which answers or fails; then generateOutput
CliGenerateSlides(answers) ==
    /\ cli.pc = "generate"
    /\ cli' = IF cli.options["dryRun"].v
              THEN [cli EXCEPT !.pc = "done"]
              ELSE [(IF answers THEN [cli EXCEPT !.pc = "done"]
                     ELSE Exit(PlainError("Error", <<"generateObject failed">>)))
                    EXCEPT !.generateCalls = cli.generateCalls + 1,
                           !.generatorModelCalls = cli.generatorModelCalls + 1]
    /\ gen' = IF ~cli.options["dryRun"].v /\ answers
              THEN [pc |-> "output", content |-> MockContent,
                    markdown |-> GenerateOutput(MockContent)]
              ELSE gen
    /\ UNCHANGED <<besidesCli, apiKey, phase>>

\* const output = await this.generateOutput(content)
GenerateOutputCall ==
    /\ gen.pc = "content"
    /\ gen' = [gen EXCEPT !.pc = "output",
                          !.markdown = GenerateOutput(gen.content)]
    /\ UNCHANGED <<besidesCli, cli, apiKey, phase>>

-----------------------------------------------------------------------------
(* Project roots *)

\* the project of the analyzer's tests
TestFiles ==
    {<<README_md>>, <<package_json>>, <<bun_lock>>, <<dot_gitignore>>,
     <<docs, guide_md>>, <<src, index_ts>>, <<src, utils_js>>}

TestManifest ==
    Manifest(Class([k \in {"a"} |-> "1.0.0"]), Class([k \in {"b"} |-> "1.0.0"]),
             AbsentClass)

TestGitignore ==
    << <<"#", " ", "Build output">>, <<"dist", "/">>, <<"*", ".", "log">>, <<>>,
       <<"#", " ", "Custom ignored directory">>, <<"custom_ignore", "/">>, <<>>,
       <<"#", " ", "Cache files">>, <<".", "cache", "/">>, <<"*", ".", "cache">>,
       <<>>, <<"*", ".", "tmp">>, <<>> >>

\* kinds of commit: files changed, insertions, deletions, and the runs of
\* digits in "<short-hash> <subject>"
Small == [files |-> 1, ins |-> 1, del |-> 0, headNums |-> <<>>]
Nine == [files |-> 1, ins |-> 9, del |-> 0, headNums |-> <<4>>]
Big == [files |-> 1, ins |-> 12, del |-> 0, headNums |-> <<688, 2>>]
Mixed == [files |-> 2, ins |-> 1, del |-> 9, headNums |-> <<1>>]
Empty == [files |-> 0, ins |-> 0, del |-> 0, headNums |-> <<2024>>]

BaseKinds == {Small, Nine, Big}
SpecialKinds == {Big, Mixed, Empty}

\* who wrote the i-th most recent commit
AuthorPatterns ==
    {[i \in 1..MaxCommits |-> IF i = 1 THEN "Alice" ELSE "Bob"],
     [i \in 1..MaxCommits |-> AuthorOrder[3 - (i % 3)]]}

Commit(i, kind, author) ==
    [id |-> i, headNums |-> kind.headNums, files |-> kind.files,
     ins |-> kind.ins, del |-> kind.del, author |-> author]

\* n commits of the base kind, but for the special ones
History(n, base, special, authors) ==
    [i \in 1..n |->
        Commit(i, IF i \in DOMAIN special THEN special[i] ELSE base, authors[i])]

\* the lengths of the histories enumerated
HistoryLengths == (0..ShortHistory) \cup (LogLimit..MaxCommits)

\* where the special commits of a history of n commits may be
SpecialPositions(n) == {T \in SUBSET (1..n) : Cardinality(T) <= MaxSpecial}

NoSpecial == [i \in {} |-> Small]

FewHistories ==
    {<<>>, History(1, Small, NoSpecial, [i \in 1..1 |-> "Bob"]),
     History(3, Big, NoSpecial, [i \in 1..3 |-> AuthorOrder[i]])}

\* the state before analyze() is called
NotCalled ==
    /\ openai = Undefined
    /\ run = 1
    /\ prev = Pending
    /\ firstRejection = NoRejection
    /\ importantPaths = <<>>
    /\ enrichOutcome = "none"
    /\ settled = Pending
    /\ gitLogRuns = 0
    /\ modelCalls = 0
    /\ configDir = TRUE /\ configFile = Absent /\ cm = CmIdle
    /\ cli = NoCommand /\ gen = NoOutput

ManifestFile(m) == IF m = NoManifest THEN {} ELSE {<<package_json>>}

\* whole projects: the test project, with or without README.md, manifest,
\* repository, commits, tree and keys
Init ==
    /\ manifest \in {NoManifest, Corrupt, TestManifest}
    /\ \E readme \in SUBSET {<<README_md>>} :
          fs = (TestFiles \ {<<README_md>>, <<package_json>>})
               \cup readme \cup ManifestFile(manifest)
    /\ gitignore = TestGitignore
    /\ \/ gitRepo = FALSE /\ commits = <<>>
       \/ gitRepo = TRUE /\ commits \in FewHistories
    /\ treeInstalled \in BOOLEAN
    /\ apiKey \in {Undefined, DryRun, "sk-arg"}
    /\ envKey \in {Undefined, "sk-env"}
    /\ envKey # Undefined => apiKey = Undefined
    /\ NotCalled
    /\ phase = "idle"
    /\ docL = Idle /\ depsL = Idle /\ gitL = Idle /\ codeL = Idle

Next ==
    \/ AnalyzeStart
    \/ DocReadReadme \/ DocGlobFiles \/ DocReadDocs
    \/ DepsReadPkg \/ DepsLocks
    \/ GitRevParse \/ GitLog \/ GitLogStat \/ GitContributors
    \/ CodeGlob \/ CodeSignificant \/ CodeGitignore \/ CodeTree
    \/ AnalyzeResume
    \/ \E resp \in ModelResponses : AnalyzeImportantPaths(resp)
    \/ AnalyzeReturn
    \/ AnalyzeAgain

Spec == Init /\ [][Next]_vars

-----------------------------------------------------------------------------
(* A scan called on its own, as the analyzer's unit tests call it *)

Maps == UNION {[S -> Versions] : S \in SUBSET PackageNames}
Classes == {AbsentClass} \cup {Class(m) : m \in Maps}
Manifests == {Manifest(d, dev, peer) : d \in Classes, dev \in Classes, peer \in Classes}

LockFiles == {<<yarn_lock>>, <<pnpm_lock_yaml>>, <<bun_lockb>>, <<bun_lock>>}

\* analyzer['analyzeDependencies'](): every manifest, every set of lock files
InitDeps ==
    /\ manifest \in {NoManifest, Corrupt} \cup Manifests
    /\ \E locks \in SUBSET LockFiles :
          fs = {<<README_md>>} \cup ManifestFile(manifest) \cup locks
    /\ gitignore = <<>>
    /\ gitRepo = FALSE /\ commits = <<>>
    /\ treeInstalled = TRUE
    /\ apiKey = Undefined /\ envKey = Undefined
    /\ NotCalled
    /\ phase = "unit"
    /\ docL = Idle /\ depsL = DepsStart /\ gitL = Idle /\ codeL = Idle

NextDeps == DepsReadPkg \/ DepsLocks

SpecDeps == InitDeps /\ [][NextDeps]_vars

\* analyzer['analyzeGit'](): no repository, or a repository with a history
InitGit ==
    /\ manifest = TestManifest
    /\ fs = TestFiles
    /\ gitignore = TestGitignore
    /\ \/ gitRepo = FALSE /\ commits = <<>>
       \/ /\ gitRepo = TRUE
          /\ \E n \in HistoryLengths, base \in BaseKinds, authors \in AuthorPatterns :
                \E S \in SpecialPositions(n) : \E special \in [S -> SpecialKinds] :
                   commits = History(n, base, special, authors)
    /\ treeInstalled = TRUE
    /\ apiKey = Undefined /\ envKey = Undefined
    /\ NotCalled
    /\ phase = "unit"
    /\ docL = Idle /\ depsL = Idle /\ gitL = GitStart /\ codeL = Idle

NextGit == GitRevParse \/ GitLog \/ GitLogStat \/ GitContributors

SpecGit == InitGit /\ [][NextGit]_vars

CoreFiles ==
    {<<README_md>>, <<package_json>>, <<src, index_ts>>, <<src, utils_js>>,
     <<src, lib, core, deep_ts>>}

OptionalFiles ==
    {<<dist, bundle_js>>, <<debug_log>>, <<src, debug_log>>,
     <<custom_ignore, test_js>>, <<build, bundle_js>>}

IgnoreLines ==
    {<<"dist", "/">>, <<"*", ".", "log">>, <<"custom_ignore", "/">>,
     <<"#", " ", "comment">>, <<>>, <<" ">>, <<"/", "*", "*">>,
     <<"$(", "touch", " ", "pwned", ")">>}

IgnoreFiles(n) == [1..n -> IgnoreLines]

\* analyzer['analyzeCodebase'](): with and without .gitignore
InitCodebase ==
    /\ manifest = TestManifest
    /\ \E optional \in SUBSET OptionalFiles :
          \/ fs = CoreFiles \cup optional /\ gitignore = <<>>
          \/ /\ fs = CoreFiles \cup optional \cup {<<dot_gitignore>>}
             /\ \E n \in 0..MaxIgnoreLines : gitignore \in IgnoreFiles(n)
    /\ gitRepo = FALSE /\ commits = <<>>
    /\ treeInstalled = TRUE
    /\ apiKey = Undefined /\ envKey = Undefined
    /\ NotCalled
    /\ phase = "unit"
    /\ docL = Idle /\ depsL = Idle /\ gitL = Idle /\ codeL = CodeStart

NextCodebase == CodeGlob \/ CodeSignificant \/ CodeGitignore \/ CodeTree

SpecCodebase == InitCodebase /\ [][NextCodebase]_vars

\* analyzer['analyzeCodebase']() on every set of these source files
SourceFiles ==
    {<<main_py>>, <<src, index_ts>>, <<src, utils_js>>, <<src, cli_rs>>,
     <<src, main_go>>, <<src, app_py>>, <<src, lib, core, deep_ts>>,
     <<custom_ignore, test_js>>, <<dist, bundle_js>>}

InitLanguages ==
    /\ manifest = TestManifest
    /\ \E sources \in SUBSET SourceFiles :
          fs = {<<README_md>>, <<package_json>>, <<dot_gitignore>>} \cup sources
    /\ gitignore = TestGitignore
    /\ gitRepo = FALSE /\ commits = <<>>
    /\ treeInstalled = TRUE
    /\ apiKey = Undefined /\ envKey = Undefined
    /\ NotCalled
    /\ phase = "unit"
    /\ docL = Idle /\ depsL = Idle /\ gitL = Idle /\ codeL = CodeStart

SpecLanguages == InitLanguages /\ [][NextCodebase]_vars

\* analyze() on projects whose four scans succeed, with every set of
\* configuration files next to package.json and README.md
ConfigFiles ==
    {<<tsconfig_json>>, <<eslintrc_js>>, <<vite_config_ts>>, <<next_config_js>>}

InitEnrich ==
    /\ manifest = TestManifest
    /\ \E present \in SUBSET ConfigFiles : fs = TestFiles \cup present
    /\ gitignore = TestGitignore
    /\ gitRepo = TRUE
    /\ commits = History(1, Small, NoSpecial, [i \in 1..1 |-> "Bob"])
    /\ treeInstalled = TRUE
    /\ apiKey \in {Undefined, DryRun, "sk-arg"}
    /\ envKey \in {Undefined, "sk-env"}
    /\ NotCalled
    /\ phase = "idle"
    /\ docL = Idle /\ depsL = Idle /\ gitL = Idle /\ codeL = Idle

\* an answer with more paths than the prompt asks for: z.array(z.string())
\* accepts any number of them, the same one twice and a missing one included
LongResponses ==
    {[kind |-> "paths",
      paths |-> << <<src, index_ts>>, <<src, <<"gone", ".", "ts">> >>,
                   <<src, utils_js>>, <<README_md>>, <<package_json>>,
                   <<src, index_ts>> >>]}

NextEnrich ==
    \/ AnalyzeStart
    \/ DocReadReadme \/ DocGlobFiles \/ DocReadDocs
    \/ DepsReadPkg \/ DepsLocks
    \/ GitRevParse \/ GitLog \/ GitLogStat \/ GitContributors
    \/ CodeGlob \/ CodeSignificant \/ CodeGitignore \/ CodeTree
    \/ AnalyzeResume
    \/ \E resp \in ModelResponses \cup LongResponses : AnalyzeImportantPaths(resp)
    \/ AnalyzeReturn

SpecEnrich == InitEnrich /\ [][NextEnrich]_vars

\* the objects handed to saveConfig and written into .slidev-gen.json by
\* hand: the configs of the tests, with each key also wrong or left out
ConfigObjects ==
    {Object([slidesPath |-> a, model |-> Str("gpt-4-turbo"),
             theme |-> Str("custom-theme"), deploymentType |-> d,
             customDomain |-> e, apiKey |-> Missing]) :
        a \in {Str("./custom-slides"), Num("123"), Missing},
        d \in {Str("github"), Str("invalid"), Missing},
        e \in {Str("slides.example.com"), Undef, Missing}}
    \cup {Object([slidesPath |-> Str("./custom-slides"), model |-> b,
                  theme |-> c, deploymentType |-> Str("github"),
                  customDomain |-> Str("slides.example.com")]) :
             b \in {Str("gpt-4-turbo"), Null},
             c \in {Str("custom-theme"), Arr}}
    \cup {Object(<<>>),
          Object([slidesPath |-> Str("./test-slides"), model |-> Str("gpt-4"),
                  theme |-> Str("default"), deploymentType |-> Str("vercel"),
                  apiKey |-> Str("sk-file")])}

ConfigTexts == {Garbage, NullText} \cup {JsonStringify(o) : o \in ConfigObjects}

\* a ConfigManager on a root that exists or not, with anything at configPath
InitConfig ==
    /\ manifest = TestManifest
    /\ fs = TestFiles
    /\ gitignore = TestGitignore
    /\ gitRepo = FALSE /\ commits = <<>>
    /\ treeInstalled = TRUE
    /\ apiKey = Undefined /\ envKey = Undefined
    /\ openai = Undefined
    /\ run = 1
    /\ prev = Pending
    /\ firstRejection = NoRejection
    /\ importantPaths = <<>>
    /\ enrichOutcome = "none"
    /\ settled = Pending
    /\ gitLogRuns = 0
    /\ modelCalls = 0
    /\ phase = "unit"
    /\ docL = Idle /\ depsL = Idle /\ gitL = Idle /\ codeL = Idle
    /\ \/ configDir = FALSE /\ configFile = Absent
       \/ configDir = TRUE /\ configFile \in {Absent, Directory} \cup ConfigTexts
    /\ cm = CmIdle
    /\ cli = NoCommand /\ gen = NoOutput

NextConfig ==
    \/ LoadConfig
    \/ \E c \in ConfigObjects : SaveConfig(c)
    \/ SaveConfigWrite

SpecConfig == InitConfig /\ [][NextConfig]_vars

\* .slidev-gen.json as the user may have left it
CliConfigFiles ==
    {Absent, Garbage,
     JsonStringify(Object([slidesPath |-> Str("./custom-slides"),
                           model |-> Str("gpt-4-turbo"),
                           theme |-> Str("custom-theme"),
                           deploymentType |-> Str("vercel"),
                           customDomain |-> Str("slides.example.com")])),
     JsonStringify(Object([model |-> Str("gpt-4-turbo")])),
     JsonStringify(Object([slidesPath |-> Num("123")]))}

\* `slidev-gen generate` typed in the test project, with one commit
InitCli ==
    /\ manifest = TestManifest
    /\ fs = TestFiles
    /\ gitignore = TestGitignore
    /\ gitRepo = TRUE
    /\ commits = History(1, Small, NoSpecial, [i \in 1..1 |-> "Bob"])
    /\ treeInstalled = TRUE
    /\ apiKey = Undefined
    /\ envKey \in {Undefined, "sk-env"}
    /\ openai = Undefined
    /\ run = 1
    /\ prev = Pending
    /\ firstRejection = NoRejection
    /\ importantPaths = <<>>
    /\ enrichOutcome = "none"
    /\ settled = Pending
    /\ gitLogRuns = 0
    /\ modelCalls = 0
    /\ configDir = TRUE /\ configFile \in CliConfigFiles /\ cm = CmIdle
    /\ cli = AtPrompt /\ gen = NoOutput
    /\ phase = "cli"
    /\ docL = Idle /\ depsL = Idle /\ gitL = Idle /\ codeL = Idle

NextCli ==
    \/ \E argv \in Argvs : CliGenerate(argv)
    \/ CliLoadConfig
    \/ CliGetAPIKey
    \/ CliConstruct
    \/ AnalyzeStart
    \/ DocReadReadme \/ DocGlobFiles \/ DocReadDocs
    \/ DepsReadPkg \/ DepsLocks
    \/ GitRevParse \/ GitLog \/ GitLogStat \/ GitContributors
    \/ CodeGlob \/ CodeSignificant \/ CodeGitignore \/ CodeTree
    \/ AnalyzeResume
    \/ \E resp \in ModelResponses : AnalyzeImportantPaths(resp)
    \/ AnalyzeReturn
    \/ CliAnalyzed
    \/ \E answers \in BOOLEAN : CliGenerateSlides(answers)

SpecCli == InitCli /\ [][NextCli]_vars

\* generator['generateOutput'](content), for every list of technical
\* details up to MaxDetails, with and without flowcharts, features, roadmap
DetailTexts == {"Tech 1", "Tech 2"}

InitSlides ==
    /\ manifest = TestManifest
    /\ fs = TestFiles
    /\ gitignore = TestGitignore
    /\ gitRepo = FALSE /\ commits = <<>>
    /\ treeInstalled = TRUE
    /\ apiKey = Undefined /\ envKey = Undefined
    /\ openai = Undefined
    /\ run = 1
    /\ prev = Pending
    /\ firstRejection = NoRejection
    /\ importantPaths = <<>>
    /\ enrichOutcome = "none"
    /\ settled = Pending
    /\ gitLogRuns = 0
    /\ modelCalls = 0
    /\ configDir = TRUE /\ configFile = Absent /\ cm = CmIdle
    /\ cli = NoCommand
    /\ phase = "unit"
    /\ docL = Idle /\ depsL = Idle /\ gitL = Idle /\ codeL = Idle
    /\ \E n \in 0..MaxDetails :
          \E technical \in [1..n -> DetailTexts],
             flowcharts \in {Undefined, <<"graph LR">>,
                             <<"graph 1", "graph 2", "graph 3", "graph 4">>},
             features \in {<<>>, <<"Feature 1", "Feature 2">>},
             roadmap \in {<<>>, <<"Step 1">>} :
             gen = [pc |-> "content", markdown |-> <<>>,
                    content |-> SlideContent(technical, flowcharts, features,
                                             roadmap)]

NextSlides == GenerateOutputCall

SpecSlides == InitSlides /\ [][NextSlides]_vars

-----------------------------------------------------------------------------
(* Properties of analyze() *)

Settled == phase \in {"resolved", "rejected"}

AnyRejected == \E i \in 1..4 : Scans[i].promise.state = "rejected"

IsInvalidProjectStructure(e) ==
    e.cls = "SlidevGenError" /\ e.type = "InvalidProjectStructure"

\* C1: when a scan fails with an Error, analyze() rejects with a
\* SlidevGenError of type InvalidProjectStructure whose originalError is the
\* error that scan's catch block caught, and analyze() resolves only with
\* the values of four fulfilled scans.
C1_ScanFailureRejects ==
    /\ AnyRejected => phase \notin {"paths", "read", "resolved"}
    /\ AnyRejected /\ phase = "awaiting" => firstRejection # NoRejection
    /\ phase = "rejected" =>
          /\ settled.state = "rejected"
          /\ IsInvalidProjectStructure(settled.reason)
          /\ \E i \in 1..4 :
                /\ Scans[i].promise = Rejected(settled.reason)
                /\ Scans[i].caught.instanceOfError
                /\ settled.reason.originalError = Scans[i].caught
    /\ phase = "resolved" =>
          /\ AllFulfilled
          /\ settled.state = "fulfilled"
          /\ settled.value.documentation = docL.promise.value
          /\ settled.value.dependencies = depsL.promise.value
          /\ settled.value.git = gitL.promise.value
          /\ [settled.value.codebase EXCEPT !.importantFiles = <<>>]
                = codeL.promise.value

C1_Witness ==
    /\ phase = "rejected"
    /\ settled.reason.originalError = JsonSyntaxError
    /\ docL.promise.state = "fulfilled"

NoReadme == <<README_md>> \notin fs

MentionsDocumentation(e) ==
    Len(e.message) >= 2 /\ SubSeq(e.message, 1, 2) = <<"Failed to analyze", "documentation">>

\* C2 as claimed: without README.md analyze() rejects with an
\* InvalidProjectStructure error that mentions documentation, whatever else
\* the root holds and however the scans interleave.
C2_AlwaysDocumentation ==
    NoReadme /\ Settled =>
        /\ phase = "rejected"
        /\ IsInvalidProjectStructure(settled.reason)
        /\ MentionsDocumentation(settled.reason)

\* no scan but the documentation scan can fail on this root
OthersCannotFail == manifest.json = "object" /\ GitLogWorks /\ treeInstalled

\* C2 as amended: without README.md the documentation scan rejects with an
\* InvalidProjectStructure error that mentions documentation, and analyze()
\* rejects with the InvalidProjectStructure error of the scan that failed
\* first: the documentation one when that scan failed first, as it does
\* whenever no other scan can fail.
C2_FirstFailureWins ==
    NoReadme =>
        /\ docL.pc = "end" =>
              /\ docL.promise.state = "rejected"
              /\ IsInvalidProjectStructure(docL.promise.reason)
              /\ MentionsDocumentation(docL.promise.reason)
        /\ phase \notin {"paths", "read", "resolved"}
        /\ phase = "rejected" =>
              /\ IsInvalidProjectStructure(settled.reason)
              /\ settled.reason = firstRejection.reason
              /\ firstRejection.scan = "documentation" =>
                    settled.reason = docL.promise.reason
              /\ OthersCannotFail => MentionsDocumentation(settled.reason)

C2_Witness ==
    /\ NoReadme
    /\ phase = "rejected"
    /\ MentionsDocumentation(settled.reason)
    /\ depsL.promise.state = "rejected"

EnrichmentFailures == {"noKey", "serviceError", "malformed"}

\* C3: a failure of the enrichment step (no API key, a service error, an
\* answer that does not fit the schema) never rejects analyze(): with four
\* fulfilled scans analyze() goes on and resolves with importantFiles empty.
C3_EnrichmentNeverRejects ==
    /\ AllFulfilled => phase # "rejected"
    /\ enrichOutcome \in EnrichmentFailures =>
          /\ phase \in {"read", "resolved"}
          /\ importantPaths = <<>>
          /\ phase = "resolved" =>
                /\ settled.state = "fulfilled"
                /\ settled.value.codebase.importantFiles = <<>>

C3_Witness ==
    /\ enrichOutcome = "serviceError"
    /\ phase = "resolved"
    /\ modelCalls = 1

-----------------------------------------------------------------------------
(* Properties of analyzeDependencies *)

KeysOf(class) == IF class.declared THEN DOMAIN class.map ELSE {}

\* C4: the merged package map has the keys of the three dependency classes
\* together, an absent class counting as empty, and gives each key the value
\* of the last class that declares it, in the order dependencies,
\* devDependencies, peerDependencies.
C4_MergedPackages ==
    depsL.promise.state = "fulfilled" =>
        LET packages == depsL.promise.value.packages
            d == manifest.dependencies
            dev == manifest.devDependencies
            peer == manifest.peerDependencies
        IN /\ DOMAIN packages = KeysOf(d) \cup KeysOf(dev) \cup KeysOf(peer)
           /\ \A k \in DOMAIN packages :
                 packages[k] = IF k \in KeysOf(peer) THEN peer.map[k]
                               ELSE IF k \in KeysOf(dev) THEN dev.map[k]
                               ELSE d.map[k]

C4_Witness ==
    /\ depsL.promise.state = "fulfilled"
    /\ manifest.dependencies = Class([k \in {"a"} |-> "1.0.0"])
    /\ manifest.devDependencies = Class([k \in {"a"} |-> "2.0.0"])
    /\ manifest.peerDependencies = AbsentClass
    /\ depsL.promise.value.packages["a"] = "2.0.0"

\* C5: packageManager is bun when bun.lockb or bun.lock exists, else pnpm
\* when pnpm-lock.yaml exists, else yarn when yarn.lock exists, else npm.
C5_PackageManagerPrecedence ==
    depsL.promise.state = "fulfilled" =>
        LET pm == depsL.promise.value.packageManager
            bun == <<bun_lockb>> \in fs \/ <<bun_lock>> \in fs
            pnpm == <<pnpm_lock_yaml>> \in fs
            yarn == <<yarn_lock>> \in fs
        IN /\ bun => pm = "bun"
           /\ ~bun /\ pnpm => pm = "pnpm"
           /\ ~bun /\ ~pnpm /\ yarn => pm = "yarn"
           /\ ~bun /\ ~pnpm /\ ~yarn => pm = "npm"

C5_Witness ==
    /\ depsL.promise.state = "fulfilled"
    /\ <<pnpm_lock_yaml>> \in fs
    /\ <<bun_lock>> \in fs
    /\ <<bun_lockb>> \notin fs
    /\ depsL.promise.value.packageManager = "bun"

-----------------------------------------------------------------------------
(* Properties of analyzeGit *)

\* C6: outside a git repository the git scan rejects with the
\* InvalidProjectStructure error 'Failed to analyze git history: No git
\* repository found in project root', and runs no git log command.
C6_NoRepository ==
    ~gitRepo =>
        /\ gitLogRuns = 0
        /\ gitL.pc \in {"revParse", "end"}
        /\ gitL.pc = "end" =>
              /\ gitL.promise.state = "rejected"
              /\ IsInvalidProjectStructure(gitL.promise.reason)
              /\ gitL.promise.reason.message =
                    <<"Failed to analyze", "git history",
                      "No git repository found in project root">>

C6_Witness == ~gitRepo /\ gitL.pc = "end" /\ gitL.promise.state = "rejected"

\* the commits of the last 10 whose insertions and deletions add up to 10
\* or more, as "<short-hash> <subject>"
ByLineCount ==
    LET shown == Take(commits, LogLimit)
        big == SelectSeq(shown, LAMBDA c : c.ins + c.del >= 10)
    IN [i \in 1..Len(big) |-> <<"head", big[i].id>>]

\* C7: majorChanges holds exactly the commits of the last 10 whose
\* insertions and deletions add up to 10 or more, the first 5 of them at
\* most; of 10 commits with 2 such, majorChanges has length 2.
C7_MajorByLineCount ==
    gitL.promise.state = "fulfilled" =>
        /\ gitL.promise.value.majorChanges = Take(ByLineCount, 5)
        /\ Len(commits) = 10 /\ Len(ByLineCount) = 2 =>
              Len(gitL.promise.value.majorChanges) = 2

-----------------------------------------------------------------------------
(* Properties of analyzeCodebase *)

HasGitignore == <<dot_gitignore>> \in fs

\* the names on the way to a listed entry
NamesListed(listing) == UNION {Range(e) : e \in listing}

\* C8: with dist/, *.log and custom_ignore/ in .gitignore, fileStructure
\* has no entry named dist, none whose name ends in .log and none named
\* custom_ignore, and lists the directory src.
C8_GitignoreRespected ==
    /\ codeL.promise.state = "fulfilled"
    /\ HasGitignore
    /\ {<<"dist", "/">>, <<"*", ".", "log">>, <<"custom_ignore", "/">>}
          \subseteq Range(gitignore)
    => LET names == NamesListed(codeL.promise.value.fileStructure)
       IN /\ dist \notin names
          /\ custom_ignore \notin names
          /\ \A name \in names : ~EndsWith(name, <<".", "log">>)
          /\ <<src>> \in codeL.promise.value.fileStructure

\* a line is blank, a comment, or made of '/' and '*' alone
NoPatternIn(line) ==
    \/ \A i \in 1..Len(line) : line[i] = " "
    \/ \E i \in 1..Len(line) :
          line[i] = "#" /\ \A j \in 1..(i - 1) : line[j] = " "
    \/ \A i \in 1..Len(line) : line[i] \in {"/", "*"}

NoUsablePattern ==
    ~HasGitignore \/ \A i \in 1..Len(gitignore) : NoPatternIn(gitignore[i])

\* C9: without .gitignore, or with one that yields no usable pattern, the
\* tree is rendered with the fallback ignore set node_modules, dist, build,
\* .git, coverage, .cache, .temp, tmp: dist is left out and src is listed.
C9_FallbackIgnoreSet ==
    codeL.promise.state = "fulfilled" /\ NoUsablePattern =>
        /\ Range(codeL.ignorePattern) =
              {node_modules, dist, build, dot_git, coverage, dot_cache,
               dot_temp, tmp}
        /\ Len(codeL.ignorePattern) = 8
        /\ dist \notin NamesListed(codeL.promise.value.fileStructure)
        /\ <<src>> \in codeL.promise.value.fileStructure

C9_Witness ==
    /\ codeL.promise.state = "fulfilled"
    /\ HasGitignore
    /\ gitignore = << <<"#", " ", "comment">>, <<"/", "*", "*">>, <<" ">> >>
    /\ <<dist, bundle_js>> \in fs
    /\ <<src>> \in codeL.promise.value.fileStructure

-----------------------------------------------------------------------------
(* Properties of repeated calls *)

WithoutImportantFiles(context) ==
    [context EXCEPT !.codebase.importantFiles = <<>>]

\* what analyze() returned both times
BothResolved == run = 2 /\ phase = "resolved" /\ prev.state = "fulfilled"

SameContext ==
    BothResolved =>
        /\ WithoutImportantFiles(settled.value) = WithoutImportantFiles(prev.value)
        /\ apiKey = DryRun => settled.value = prev.value

\* a step of one scan leaves the locals of the other three alone
ScanLocalsApart ==
    \A i, j \in 1..4 :
        i # j /\ run' = run /\ phase # "idle" =>
            Scans[i]' = Scans[i] \/ Scans[j]' = Scans[j]

-----------------------------------------------------------------------------
(* Properties of the filesystem *)

\* C11: no step of analyze(), of a scan or of the enrichment, on success or
\* on failure, changes the set of files under the project root or what they
\* hold.
C11_NoFilesystemWrite ==
    [][fs' = fs /\ manifest' = manifest /\ gitignore' = gitignore]_vars

-----------------------------------------------------------------------------
(* Properties of git.contributors *)

\* the commits of the whole history that the author wrote
CommitCount(author) ==
    Cardinality({i \in 1..Len(commits) : commits[i].author = author})

\* C12: contributors holds each author name of the whole history exactly
\* once, ordered by the author's number of commits (read either way: most
\* commits first, or fewest first).
C12_ContributorsByCommitCount ==
    gitL.promise.state = "fulfilled" =>
        LET contributors == gitL.promise.value.contributors
        IN /\ Range(contributors) = {commits[i].author : i \in 1..Len(commits)}
           /\ \A i, j \in 1..Len(contributors) :
                 i # j => contributors[i] # contributors[j]
           /\ \/ \A i, j \in 1..Len(contributors) :
                    i < j => CommitCount(contributors[i]) >= CommitCount(contributors[j])
              \/ \A i, j \in 1..Len(contributors) :
                    i < j => CommitCount(contributors[i]) <= CommitCount(contributors[j])

-----------------------------------------------------------------------------
(* Properties of the enrichment step *)

\* getImportantFilePaths has returned
PathsChosen == phase \in {"read", "resolved"}

\* the places in significantFiles of the names that do not start with '.'
VisibleAt(sig) == {i \in 1..Len(sig) : Head(sig[i]) # "."}

\* C13: with apiKey 'dry-run', the important-file paths are the first (at
\* most 3) entries of significantFiles whose name does not start with '.',
\* in the order of significantFiles, and generateObject is never called.
C13_DryRunPaths ==
    apiKey = DryRun =>
        /\ modelCalls = 0
        /\ PathsChosen =>
              LET sig == codeL.promise.value.significantFiles
                  visible == VisibleAt(sig)
              IN /\ Len(importantPaths) =
                       (IF Cardinality(visible) < 3 THEN Cardinality(visible) ELSE 3)
                 /\ \A k \in 1..Len(importantPaths) :
                       \E i \in visible :
                          /\ importantPaths[k] = <<sig[i]>>
                          /\ Cardinality({j \in visible : j < i}) = k - 1

C13_Witness ==
    /\ apiKey = DryRun
    /\ phase = "resolved"
    /\ codeL.promise.value.significantFiles =
          <<package_json, tsconfig_json, eslintrc_js, vite_config_ts, README_md>>
    /\ importantPaths = << <<package_json>>, <<tsconfig_json>>, <<vite_config_ts>> >>

-----------------------------------------------------------------------------
(* Properties of the ConfigManager *)

\* the object without its undefined properties, as toEqual compares objects
Defined(obj) == [k \in {key \in DOMAIN obj : obj[key] # Undef} |-> obj[k]]

ToEqual(a, b) == Defined(a) = Defined(b)

\* c is a ProjectConfig: the four keys with defaults hold strings, of the
\* enum for deploymentType, customDomain holds a string if anything, and c
\* has no other key
IsProjectConfig(c) ==
    /\ DOMAIN SchemaDefaults \subseteq DOMAIN Defined(c)
    /\ DOMAIN Defined(c) \subseteq Range(SchemaKeys)
    /\ \A k \in DOMAIN Defined(c) : c[k].t = "string"
    /\ c["deploymentType"].v \in DeploymentTypes

\* loadConfig() has settled
Loaded == cm.op = "load" /\ cm.pc = "end"

SchemaViolation ==
    /\ configDir
    /\ configFile \notin {Absent, Directory}
    /\ JsonParse(configFile).ok
    /\ ~SchemaParse(JsonParse(configFile).value).ok

\* C15: when .slidev-gen.json holds well-formed JSON that violates the
\* schema, loadConfig() rejects with an error whose message contains
\* 'Invalid configuration format'.
C15_InvalidFormatMessage ==
    Loaded /\ SchemaViolation =>
        /\ cm.promise.state = "rejected"
        /\ "Invalid configuration format" \in Range(cm.promise.reason.message)

\* C16: when .slidev-gen.json is not well-formed JSON, loadConfig() rejects
\* with a SlidevGenError of type InvalidConfiguration and message
\* 'Configuration file contains invalid JSON', never with the defaults.
C16_InvalidJson ==
    Loaded /\ configDir /\ configFile = Garbage =>
        /\ cm.promise.state = "rejected"
        /\ cm.promise.reason.cls = "SlidevGenError"
        /\ cm.promise.reason.type = "InvalidConfiguration"
        /\ cm.promise.reason.message = <<"Configuration file contains invalid JSON">>

C16_Witness ==
    /\ Loaded
    /\ configFile = Garbage
    /\ cm.promise.state = "rejected"
    /\ cm.promise.reason.originalError = JsonSyntaxError

\* C17: saveConfig(c) with a c that the schema refuses rejects without
\* creating the directory and without touching .slidev-gen.json, and never
\* gets to the write.
C17_InvalidSaveWritesNothing ==
    [][cm.pc = "end" /\ cm'.op = "save" /\ cm' # cm /\ ~SchemaParse(cm'.arg).ok =>
          /\ cm'.pc = "end"
          /\ cm'.promise.state = "rejected"
          /\ cm'.promise.reason.type = "InvalidConfiguration"
          /\ configDir' = configDir
          /\ configFile' = configFile]_vars

C17_Witness ==
    /\ cm.op = "save"
    /\ cm.promise.state = "rejected"
    /\ Get(cm.arg, "deploymentType") = Str("invalid")
    /\ ~configDir

-----------------------------------------------------------------------------
(* Properties of the fan-in *)

\* getImportantFilePaths has been called in this call of analyze()
EnrichmentStarted ==
    \/ phase \in {"paths", "read", "resolved"}
    \/ enrichOutcome # "none"
    \/ modelCalls > 0
    \/ importantPaths # <<>>

\* C19: the enrichment step, and with it any model call, starts only once
\* all four scans have fulfilled; in a call where a scan fails it is never
\* started, neither before the failure nor after analyze() has rejected.
C19_EnrichmentAfterFanIn ==
    /\ EnrichmentStarted => AllFulfilled
    /\ AnyRejected \/ phase = "rejected" => ~EnrichmentStarted

C19_Witness ==
    /\ phase = "read"
    /\ modelCalls = 1
    /\ AllFulfilled

\* the awaits of each scan
Awaits ==
    <<{"readme", "glob", "readDocs"}, {"readPkg", "locks"},
      {"revParse", "log", "logStat", "contributors"},
      {"glob", "significant", "gitignore", "tree"}>>

\* whatever analyze() has done, a scan is not started, at one of its awaits,
\* or ended by settling its own promise; a git scan fulfils only after its
\* three git log subprocesses
SiblingsRun ==
    /\ \A i \in 1..4 :
          /\ Scans[i].pc \in {"idle", "end"} \cup Awaits[i]
          /\ Scans[i].pc = "end" <=> Scans[i].promise.state # "pending"
    /\ gitL.promise.state = "fulfilled" => gitLogRuns = 3

\* the rejection of analyze() is the first one, for good
FirstFailureStays ==
    /\ phase = "rejected" => settled = Rejected(firstRejection.reason)
    /\ firstRejection # NoRejection =>
          \E i \in 1..4 : Scans[i].promise = Rejected(firstRejection.reason)

\* within a call, what analyze() rejected with does not change, and a step
\* that settles one scan leaves the others where they are
NoCancellation ==
    /\ settled.state = "rejected" /\ run' = run =>
          settled' = settled /\ firstRejection' = firstRejection
    /\ run' = run /\ phase # "idle" =>
          Cardinality({i \in 1..4 : Scans[i]' # Scans[i]}) <= 1
    /\ \A i \in 1..4 :
          phase = "rejected" /\ run' = run /\ Scans[i]' # Scans[i] =>
              /\ Scans[i].pc \in Awaits[i]
              /\ Scans[i]'.pc \in Awaits[i] \cup {"end"}
              /\ Scans[i]'.pc # Scans[i].pc

-----------------------------------------------------------------------------
(* Properties of majorChanges and recentCommits *)

\* the commits of the last 10 that have a diff-stat line whose numbers add
\* up to 10 or more, as "<short-hash> <subject>"
ByOwnStatLine ==
    LET shown == Take(commits, LogLimit)
        big == SelectSeq(shown, LAMBDA c :
                   HasStat(c) /\ SumSeq(StatLine(c).nums) >= MajorThreshold)
    IN [i \in 1..Len(big) |-> HeadLine(big[i]).text]

\* C21: majorChanges is the first 5 at most, in git-log order, of the
\* commits of the last 10 whose own diff-stat line has numbers adding up to
\* 10 or more, in every history, the ones with commits that print no
\* diff-stat line included.
C21_MajorByOwnStatLine ==
    gitL.promise.state = "fulfilled" =>
        gitL.promise.value.majorChanges = Take(ByOwnStatLine, MajorKeep)

\* whether a is b with some of its entries left out
RECURSIVE IsSubsequence(_, _)
IsSubsequence(a, b) ==
    IF a = <<>> THEN TRUE
    ELSE IF b = <<>> THEN FALSE
    ELSE IF Head(a) = Head(b) THEN IsSubsequence(Tail(a), Tail(b))
    ELSE IsSubsequence(a, Tail(b))

-----------------------------------------------------------------------------
(* Properties of mainLanguages and of the ignore set *)

\* the source files in the order glob lists them, and what follows the last
\* '.' of each
Enumerated == SourceGlob(fs)
ExtensionAt(i) == AfterLastDot(PathTokens(Enumerated[i]))
ExtensionsMet == {ExtensionAt(i) : i \in 1..Len(Enumerated)}
FileCount(ext) == Cardinality({i \in 1..Len(Enumerated) : ExtensionAt(i) = ext})
FirstMet(ext) == CHOOSE i \in 1..Len(Enumerated) :
                    ExtensionAt(i) = ext /\ \A j \in 1..(i - 1) : ExtensionAt(j) # ext

\* x is to be listed before y: it has more files, or as many and was met first
Before(x, y) ==
    \/ FileCount(x) > FileCount(y)
    \/ FileCount(x) = FileCount(y) /\ FirstMet(x) < FirstMet(y)

\* C23: mainLanguages has 3 entries at most, lists extensions by
\* non-increasing file count, leaves out no extension that has more files
\* than a listed one, and among equal counts prefers the extension met
\* first in the enumeration.
C23_MainLanguages ==
    codeL.promise.state = "fulfilled" =>
        LET langs == codeL.promise.value.mainLanguages
            omitted == ExtensionsMet \ Range(langs)
        IN /\ Len(langs) <= 3
           /\ Range(langs) \subseteq ExtensionsMet
           /\ omitted # {} => Len(langs) = 3
           /\ \A i, j \in 1..Len(langs) : i < j => Before(langs[i], langs[j])
           /\ \A i \in 1..Len(langs) : \A y \in omitted : Before(langs[i], y)

\* more than 3 extensions, two listed ones with as many files, and one left
\* out with as many files as the last one listed
C23_Witness ==
    /\ codeL.promise.state = "fulfilled"
    /\ Cardinality(ExtensionsMet) > 3
    /\ LET langs == codeL.promise.value.mainLanguages
       IN /\ Len(langs) = 3
          /\ FileCount(langs[1]) > FileCount(langs[2])
          /\ FileCount(langs[2]) = FileCount(langs[3])
          /\ \E y \in ExtensionsMet \ Range(langs) : FileCount(y) = FileCount(langs[3])

\* the lines of .gitignore that are neither blank nor comments, with every
\* '/' and '*' taken out, but for the ones nothing is left of
UsableLines ==
    LET blank(line) == \A i \in 1..Len(line) : line[i] = " "
        comment(line) ==
            \E i \in 1..Len(line) :
                line[i] = "#" /\ \A j \in 1..(i - 1) : line[j] = " "
        stripped(line) ==
            SelectSeq(Trim(line), LAMBDA t : t # "/" /\ t # "*")
    IN {stripped(gitignore[i]) :
            i \in {k \in 1..Len(gitignore) :
                      ~blank(gitignore[k]) /\ ~comment(gitignore[k])}} \ {<<>>}

\* the alternatives of the -I argument tree is started with
HandedToTree == ShellExpand(codeL.ignorePattern)

\* C24: when .gitignore yields a usable pattern, the ignore set handed to
\* tree is exactly its non-comment, non-blank lines with every '/' and '*'
\* removed, together with node_modules and .git, each once, and no other
\* fallback default.
C24_IgnoreSetFromGitignore ==
    codeL.pc = "end" /\ HasGitignore /\ UsableLines # {} =>
        /\ Range(HandedToTree) = UsableLines \cup {node_modules, dot_git}
        /\ Cardinality(Range(HandedToTree)) = Len(HandedToTree)

\* C25: whatever .gitignore contains, fileStructure lists no entry named
\* node_modules, dist, build or .git.
C25_AlwaysExcluded ==
    codeL.promise.state = "fulfilled" =>
        NamesListed(codeL.promise.value.fileStructure)
            \cap {node_modules, dist, build, dot_git} = {}

-----------------------------------------------------------------------------
(* Properties of importantFiles *)

\* C26: importantFiles has one entry per path of the path-selection step,
\* in the same order; the entry of a path that cannot be read keeps the
\* path and carries '// Failed to read file content', and analyze() does
\* not reject once the paths are chosen.
C26_OneEntryPerPath ==
    /\ PathsChosen => settled.state # "rejected"
    /\ phase = "resolved" =>
          LET files == settled.value.codebase.importantFiles
          IN /\ Len(files) = Len(importantPaths)
             /\ \A i \in 1..Len(importantPaths) :
                   /\ files[i].path = importantPaths[i]
                   /\ files[i].content =
                         (IF importantPaths[i] \in fs
                          THEN <<"content of", importantPaths[i]>>
                          ELSE <<"// Failed to read file content">>)

\* a path that cannot be read, ahead of one that can
C26_Witness ==
    /\ phase = "resolved"
    /\ \E i, j \in 1..Len(importantPaths) :
          /\ i < j
          /\ importantPaths[i] \notin fs
          /\ importantPaths[j] \in fs
          /\ settled.value.codebase.importantFiles[i].content
                = <<"// Failed to read file content">>

\* C27: in every ProjectContext analyze() returns, importantFiles has 5
\* entries at most, and 3 at most in dry-run mode, whatever generateObject
\* returns.
C27_AtMostFive ==
    phase = "resolved" =>
        Len(settled.value.codebase.importantFiles)
            <= (IF apiKey = DryRun THEN 3 ELSE 5)

-----------------------------------------------------------------------------
(* Properties of the command line *)

\* the value .slidev-gen.json gives a key, or else the default of the schema
FromFileOrDefault(key) ==
    LET inFile == IF configFile = Absent THEN <<>> ELSE JsonParse(configFile).value
    IN IF key \in DOMAIN inFile THEN inFile[key]
       ELSE IF key \in DOMAIN SchemaDefaults THEN Str(SchemaDefaults[key])
       ELSE Undef

ConfigMerged == cli.config # NoArg

\* C28: the effective configuration of a command has, for every key, the
\* value of .slidev-gen.json or the default of the schema, but for the keys
\* whose flag was given on the command line, which have the value typed.
C28_OptionsOverrideFile ==
    ConfigMerged =>
        \A i \in 1..Len(SchemaKeys) :
            LET key == SchemaKeys[i]
            IN Get(cli.config, key) =
                  (IF key \in DOMAIN cli.argv THEN cli.argv[key]
                   ELSE FromFileOrDefault(key))

\* no generateObject call has been made by the analyzer or the generator
NoOutboundCall == modelCalls = 0 /\ cli.generatorModelCalls = 0

DryRunCommand == cli.pc \notin {"none", "prompt"} /\ cli.options["dryRun"].v

\* C29: in a `generate --dry-run` run, with or without an API key, no step
\* calls the model: getAPIKey is skipped, getImportantFilePaths takes the
\* dry-run branch, and SlidesGenerator.generate is not invoked.
C29_DryRunNoModelCall ==
    DryRunCommand =>
        /\ NoOutboundCall
        /\ ~cli.keyChecked
        /\ cli.generateCalls = 0
        /\ enrichOutcome \in {"none", "dryRun"}
        /\ PathsChosen => enrichOutcome = "dryRun"
        /\ phase # "cli" => apiKey = DryRun

\* a dry run that ran to its end with a key on the command line and one in
\* the environment
C29_Witness ==
    /\ DryRunCommand
    /\ cli.pc = "done"
    /\ phase = "resolved"
    /\ "apiKey" \in DOMAIN cli.argv
    /\ envKey # Undefined
    /\ cli.debugLog # NoArg

-----------------------------------------------------------------------------
(* Properties of generateOutput *)

TechnicalTitles ==
    {"Core Technical Features", "Implementation Details",
     "Advanced Technical Concepts"}

\* where in the markdown the header slide and the technical slides are
HeaderAt ==
    {i \in 1..Len(gen.markdown) :
        /\ gen.markdown[i].layout = "section"
        /\ gen.markdown[i].content.heading = "Technical Deep Dive"}

TechnicalAt ==
    {i \in 1..Len(gen.markdown) :
        gen.markdown[i].content.heading \in TechnicalTitles}

\* the bullets of the technical slides, one slide after the other
RECURSIVE DetailsFrom(_)
DetailsFrom(i) ==
    IF i > Len(gen.markdown) THEN <<>>
    ELSE (IF i \in TechnicalAt THEN gen.markdown[i].content.bullets ELSE <<>>)
         \o DetailsFrom(i + 1)

\* C30: generateOutput emits the 'Technical Deep Dive' header slide exactly
\* when there is a technical detail, followed by ceil(n/3) technical slides
\* for n details, each with 3 details at most, and the details of the
\* slides, read in order, are the technical details in their order.
C30_TechnicalSlides ==
    gen.pc = "output" =>
        LET n == Len(gen.content.sections.technical)
        IN /\ Cardinality(HeaderAt) = (IF n > 0 THEN 1 ELSE 0)
           /\ Cardinality(TechnicalAt) = (n + 2) \div 3
           /\ \A h \in HeaderAt :
                 TechnicalAt = (h + 1)..(h + Cardinality(TechnicalAt))
           /\ \A i \in TechnicalAt :
                 /\ Len(gen.markdown[i].content.bullets) <= 3
                 /\ Len(gen.markdown[i].content.bullets) >= 1
           /\ DetailsFrom(1) = gen.content.sections.technical

\* 7 details on 3 slides, the last slide with one, and no roadmap slide
C30_Witness ==
    /\ gen.pc = "output"
    /\ Len(gen.content.sections.technical) = 7
    /\ Cardinality(TechnicalAt) = 3
    /\ Len(gen.markdown) \in TechnicalAt
    /\ Len(gen.markdown[Len(gen.markdown)].content.bullets) = 1
    /\ gen.content.sections.technical[3] # gen.content.sections.technical[4]

====
